---- MODULE Spec2Model ----
(***************************************************************************)
(* State-machine model of the multi-provider LLM manager of drinkwater     *)
(* (src/src/core/llm/manager.py), its provider clients                     *)
(* (src/src/core/llm/{deepseek,glm4,qwen,openai_client}.py) and the JSON   *)
(* helpers it persists through (src/src/utils/helpers.py).                 *)
(*                                                                         *)
(* Modelling conventions                                                   *)
(*  - A JSON document is a TLA+ record / function with string keys; the    *)
(*    empty document {} is EmptyDoc.  Python's None is the string "None"   *)
(*    for text fields and the integer NoTime (0) for timestamps.           *)
(*  - The clock is a day counter `now`; datetime.now().isoformat() and     *)
(*    strftime('%Y-%m-%d') both read it.                                   *)
(*  - An API key is a sequence of characters.                              *)
(*  - The provider fields api_base, max_tokens and temperature only shape  *)
(*    the HTTP request body and are not part of the model; the backend's   *)
(*    answer to a request is an input drawn from Answers.                  *)
(*  - Writing the config file succeeds (no IOError on the user data dir).  *)
(***************************************************************************)
EXTENDS Integers, Sequences, FiniteSets, TLC

(***************************************************************************)
(* Bounds of the model                                                     *)
(***************************************************************************)
MaxOps == 1        \* public operations performed on one manager instance
MaxDay == 2        \* last day the clock reaches
MaxTokens == 2     \* total_tokens a backend reports for one completion

(***************************************************************************)
(* Values                                                                  *)
(***************************************************************************)
None == "None"
NoTime == 0
EmptyDoc == [k \in {} |-> k]

\* LLMManager.CLIENT_CLASSES
CLIENT_CLASSES == {"deepseek", "glm4", "qwen", "openai"}

\* provider ids an operation may be given: the four known ones and one that
\* is not configured
ProviderArgs == CLIENT_CLASSES \cup {"nonexistent"}

EmptyKey == << >>
PlainKey == <<"s", "k">>
DottedKey == <<"i", ".", "s">>
Keys == {EmptyKey, PlainKey, DottedKey}

\* dict.get(key, default)
Get(doc, key, default) == IF key \in DOMAIN doc THEN doc[key] ELSE default

\* doc[key] = value
Put(doc, key, value) ==
    [k \in DOMAIN doc \cup {key} |-> IF k = key THEN value ELSE doc[k]]

(***************************************************************************)
(* LLMManager._default_config                                              *)
(***************************************************************************)
DefaultName(p) ==
    CASE p = "deepseek" -> "DeepSeek"
      [] p = "glm4" -> "Zhipu GLM-4"
      [] p = "qwen" -> "Tongyi Qianwen"
      [] OTHER -> "OpenAI"

DefaultModel(p) ==
    CASE p = "deepseek" -> "deepseek-chat"
      [] p = "glm4" -> "glm-4"
      [] p = "qwen" -> "qwen-turbo"
      [] OTHER -> "gpt-4o-mini"

DefaultKeyStatus == [valid |-> FALSE, checked_at |-> NoTime]

DefaultProvider(p) ==
    [name |-> DefaultName(p),
     enabled |-> (p = "deepseek"),
     api_key |-> EmptyKey,
     model |-> DefaultModel(p),
     key_status |-> DefaultKeyStatus]

DefaultUsage ==
    [total_calls |-> 0, total_tokens |-> 0, last_call_at |-> NoTime,
     daily_stats |-> EmptyDoc]

DefaultConfig ==
    [version |-> "1.0",
     active_provider |-> "deepseek",
     auto_fallback |-> TRUE,
     fallback_order |-> <<"deepseek", "glm4", "qwen", "openai">>,
     providers |-> [p \in CLIENT_CLASSES |-> DefaultProvider(p)],
     usage_stats |-> DefaultUsage]

(***************************************************************************)
(* Files                                                                   *)
(***************************************************************************)
AbsentFile == [exists |-> FALSE, parseable |-> FALSE, doc |-> EmptyDoc]
CorruptFile == [exists |-> TRUE, parseable |-> FALSE, doc |-> EmptyDoc]
FileOf(doc) == [exists |-> TRUE, parseable |-> TRUE, doc |-> doc]

\* helpers.load_json(file_path, None): the caller passes default = None and
\* the last line turns a None default into {}
load_json(f) ==
    IF f.exists /\ f.parseable
    THEN [none |-> FALSE, doc |-> f.doc]
    ELSE [none |-> FALSE, doc |-> EmptyDoc]

\* helpers.save_json(file_path, data): the whole document replaces the file
save_json(doc) == FileOf(doc)

(***************************************************************************)
(* Provider clients                                                        *)
(***************************************************************************)
\* base.LLMResponse
LLMResponse(success, content, provider, model, tokens_used, message, code) ==
    [success |-> success, content |-> content, provider |-> provider,
     model |-> model, tokens_used |-> tokens_used,
     error_message |-> message, error_code |-> code]

\* BaseLLMClient._create_error_response: provider is the configured name
create_error_response(name, model, message, code) ==
    LLMResponse(FALSE, "", name, model, 0, message, code)

\* BaseLLMClient._create_success_response
create_success_response(name, model, content, tokens) ==
    LLMResponse(TRUE, content, name, model, tokens, None, None)

\* the provider literal each client writes into an HTTP error response
LiteralName(p) ==
    CASE p = "deepseek" -> "DeepSeek"
      [] p = "glm4" -> "GLM-4"
      [] p = "qwen" -> "Tongyi Qianwen"
      [] OTHER -> "OpenAI"

\* what the backend does with one request: answers 200 with a completion,
\* answers with an error envelope carrying a code, times out, or refuses
\* the connection
HttpErrorCodes == {"invalid_api_key", "insufficient_quota"}
AnswerOk == [kind |-> "ok", code |-> None, tokens |-> MaxTokens]
AnswerHttp(c) == [kind |-> "http", code |-> c, tokens |-> 0]
AnswerTimeout == [kind |-> "timeout", code |-> None, tokens |-> 0]
AnswerConnect == [kind |-> "connect", code |-> None, tokens |-> 0]
\* a non-200 answer whose body is not JSON
AnswerBadBody(status) == [kind |-> "badbody", status |-> status]
\* f"http_{response.status_code}"
HttpStatusCode(status) ==
    CASE status = 401 -> "http_401"
      [] status = 429 -> "http_429"
      [] OTHER -> "http_500"
\* any other exception while the request is made
AnswerFault == [kind |-> "fault", code |-> None, tokens |-> 0]
Answers ==
    {AnswerOk, AnswerTimeout, AnswerConnect}
    \cup {AnswerHttp(c) : c \in HttpErrorCodes}

\* the answers drawn for a fallback invocation and for a key probe
FewAnswers == {AnswerOk, AnswerHttp("invalid_api_key"), AnswerConnect}

\* len(api_key.split("."))
SplitParts(key) == 1 + Cardinality({i \in 1..Len(key) : key[i] = "."})

\* GLM4Client._generate_token succeeds iff the key splits into two parts
generate_token_ok(key) == SplitParts(key) = 2

\* call that reports every failed request as a network error
ClientCall_flat(p, client, name, answer) ==
    IF client.api_key = EmptyKey
    THEN create_error_response(name, client.model, "no key", "missing_api_key")
    ELSE IF p = "glm4" /\ ~generate_token_ok(client.api_key)
    THEN create_error_response(name, client.model, "token",
                               "token_generation_failed")
    ELSE CASE answer.kind = "ok" ->
                create_success_response(name, client.model, "text",
                                        answer.tokens)
           [] answer.kind = "http" ->
                LLMResponse(FALSE, "", LiteralName(p), client.model, 0,
                            answer.code, answer.code)
           [] answer.kind = "badbody" ->
                LLMResponse(FALSE, "", LiteralName(p), client.model, 0,
                            "http", "network_error")
           [] answer.kind = "timeout" ->
                create_error_response(name, client.model, "timeout",
                                      "network_error")
           [] answer.kind = "connect" ->
                create_error_response(name, client.model, "network",
                                      "network_error")
           [] OTHER ->
                create_error_response(name, client.model, "fault",
                                      "network_error")

\* <Client>.call(prompt): client is the snapshot taken by BaseLLMClient.__init__
\* (api_key, model); name is read from the shared provider config
ClientCall(p, client, name, answer) ==
    IF client.api_key = EmptyKey
    THEN create_error_response(name, client.model, "no key", "missing_api_key")
    ELSE IF p = "glm4" /\ ~generate_token_ok(client.api_key)
    THEN create_error_response(name, client.model, "token",
                               "token_generation_failed")
    ELSE CASE answer.kind = "ok" ->
                create_success_response(name, client.model, "text",
                                        answer.tokens)
           [] answer.kind = "http" ->
                LLMResponse(FALSE, "", LiteralName(p), client.model, 0,
                            answer.code, answer.code)
           [] answer.kind = "badbody" ->
                LLMResponse(FALSE, "", LiteralName(p), client.model, 0,
                            "http", HttpStatusCode(answer.status))
           [] answer.kind = "timeout" ->
                create_error_response(name, client.model, "timeout", "timeout")
           [] answer.kind = "connect" ->
                create_error_response(name, client.model, "network",
                                      "network_error")
           [] OTHER ->
                create_error_response(name, client.model, "fault",
                                      "unknown_error")

\* the error codes each check_key_status takes for a bad credential
KeyErrorCodes(p) ==
    CASE p = "deepseek" -> {"invalid_api_key", "authentication_error",
                            "insufficient_quota", "invalid_request_error"}
      [] p = "qwen" -> {"InvalidApiKey", "Arrearage", "InvalidParameter"}
      [] OTHER -> {"invalid_api_key", "insufficient_quota",
                   "invalid_request_error"}

KeyStatus(valid, t, error, message) ==
    [valid |-> valid, checked_at |-> t, error |-> error, message |-> message]

\* check_key_status as the GLM client writes it, for every client
check_key_status_strict(p, client, name, answer, t) ==
    IF client.api_key = EmptyKey
    THEN KeyStatus(FALSE, t, "missing_api_key", "no key")
    ELSE IF p = "glm4" /\ ~(\E i \in 1..Len(client.api_key) :
                              client.api_key[i] = ".")
    THEN KeyStatus(FALSE, t, "invalid_format", "format")
    ELSE LET test == ClientCall(p, client, name, answer) IN
         IF test.success
         THEN KeyStatus(TRUE, t, None, "valid")
         ELSE KeyStatus(FALSE, t, test.error_code, test.error_message)

\* check_key_status reaches its self.call(...)
check_key_calls(p, client) ==
    /\ client.api_key # EmptyKey
    /\ p = "glm4" => \E i \in 1..Len(client.api_key) : client.api_key[i] = "."

\* <Client>.call reaches its httpx request
call_sends(p, client) ==
    /\ client.api_key # EmptyKey
    /\ p = "glm4" => generate_token_ok(client.api_key)

\* <Client>.check_key_status()
check_key_status(p, client, name, answer, t) ==
    IF client.api_key = EmptyKey
    THEN KeyStatus(FALSE, t, "missing_api_key", "no key")
    ELSE IF p = "glm4" /\ ~(\E i \in 1..Len(client.api_key) :
                              client.api_key[i] = ".")
    THEN KeyStatus(FALSE, t, "invalid_format", "format")
    ELSE LET test == ClientCall(p, client, name, answer) IN
         IF test.success
         THEN KeyStatus(TRUE, t, None, "valid")
         ELSE IF p = "glm4"
         THEN KeyStatus(FALSE, t, test.error_code, test.error_message)
         ELSE KeyStatus(~(test.error_code \in KeyErrorCodes(p)), t,
                        test.error_code, test.error_message)

(***************************************************************************)
(* LLMManager: pure parts.  st is the manager with its file:               *)
(* [config, file, clients].                                                *)
(***************************************************************************)
\* _init_clients that builds a client for every enabled provider
init_clients_enabled(cfg) ==
    LET providers == Get(cfg, "providers", EmptyDoc)
        live == {p \in DOMAIN providers :
                    providers[p].enabled /\ p \in CLIENT_CLASSES}
    IN  [p \in live |-> [api_key |-> providers[p].api_key,
                         model |-> providers[p].model]]

\* LLMManager._init_clients
init_clients(cfg) ==
    LET providers == Get(cfg, "providers", EmptyDoc)
        live == {p \in DOMAIN providers :
                    /\ providers[p].enabled
                    /\ providers[p].api_key # EmptyKey
                    /\ p \in CLIENT_CLASSES}
    IN  [p \in live |-> [api_key |-> providers[p].api_key,
                         model |-> providers[p].model]]

\* _save_config that keeps the active provider the file already names
save_config_merging(st) ==
    IF st.file.exists /\ st.file.parseable
          /\ "active_provider" \in DOMAIN st.file.doc
          /\ "active_provider" \in DOMAIN st.config
    THEN [st EXCEPT !.file = save_json([st.config EXCEPT
                        !.active_provider = st.file.doc.active_provider])]
    ELSE [st EXCEPT !.file = save_json(st.config)]

\* LLMManager._save_config
save_config(st) == [st EXCEPT !.file = save_json(st.config)]

\* LLMManager._load_config, run by __init__ before self.config is assigned.
\* Step 3 calls _save_config, which reads self.config: AttributeError.
load_config(userFile, bundledFile) ==
    LET user == load_json(userFile) IN
    IF ~user.none
    THEN [raised |-> FALSE, config |-> user.doc, file |-> userFile]
    ELSE LET bundle == load_json(bundledFile) IN
         IF bundledFile.exists /\ ~bundle.none
         THEN [raised |-> FALSE, config |-> bundle.doc,
               file |-> save_json(bundle.doc)]
         ELSE [raised |-> TRUE, config |-> EmptyDoc, file |-> userFile]

\* a classification that forgets the exhausted-quota code
IsKeyError_narrow(code) == code \in {"invalid_api_key", "missing_api_key"}

\* a classification that takes every failure for a key problem
IsKeyError_any(code) == TRUE

\* the three codes LLMManager.call takes for a key problem
IsKeyError(code) ==
    code \in {"invalid_api_key", "insufficient_quota", "missing_api_key"}

\* _mark_key_invalid without its _save_config
mark_key_invalid_unsaved(st, p, reason, t) ==
    IF p \in DOMAIN st.config.providers
    THEN [st EXCEPT !.config.providers[p].key_status =
            [valid |-> FALSE, checked_at |-> t, error |-> reason]]
    ELSE st

\* LLMManager._mark_key_invalid
mark_key_invalid(st, p, reason, t) ==
    IF p \in DOMAIN st.config.providers
    THEN save_config([st EXCEPT !.config.providers[p].key_status =
                        [valid |-> FALSE, checked_at |-> t, error |-> reason]])
    ELSE st

\* _record_usage that leaves out the per-provider sub-bucket
record_usage_nosub(st, p, tokens, t) ==
    LET stats == Get(st.config, "usage_stats", EmptyDoc)
        daily == Get(stats, "daily_stats", EmptyDoc)
        day == Get(daily, t, [calls |-> 0, tokens |-> 0,
                              by_provider |-> EmptyDoc])
        day2 == [day EXCEPT !.calls = @ + 1, !.tokens = @ + tokens]
        stats2 == Put(Put(Put(Put(stats,
                    "total_calls", Get(stats, "total_calls", 0) + 1),
                    "total_tokens", Get(stats, "total_tokens", 0) + tokens),
                    "last_call_at", t),
                    "daily_stats", Put(daily, t, day2))
    IN  save_config([st EXCEPT !.config = Put(st.config, "usage_stats", stats2)])

\* _record_usage that counts the call in the totals only
record_usage_totals(st, p, tokens, t) ==
    LET stats == Get(st.config, "usage_stats", EmptyDoc)
        stats2 == Put(Put(Put(stats,
                    "total_calls", Get(stats, "total_calls", 0) + 1),
                    "total_tokens", Get(stats, "total_tokens", 0) + tokens),
                    "last_call_at", t)
    IN  save_config([st EXCEPT !.config = Put(st.config, "usage_stats", stats2)])

\* LLMManager._record_usage
record_usage(st, p, tokens, t) ==
    LET stats == Get(st.config, "usage_stats", EmptyDoc)
        daily == Get(stats, "daily_stats", EmptyDoc)
        day == Get(daily, t, [calls |-> 0, tokens |-> 0,
                              by_provider |-> EmptyDoc])
        prov == Get(day.by_provider, p, [calls |-> 0, tokens |-> 0])
        prov2 == [calls |-> prov.calls + 1, tokens |-> prov.tokens + tokens]
        day2 == [calls |-> day.calls + 1, tokens |-> day.tokens + tokens,
                 by_provider |-> Put(day.by_provider, p, prov2)]
        stats2 == Put(Put(Put(Put(stats,
                    "total_calls", Get(stats, "total_calls", 0) + 1),
                    "total_tokens", Get(stats, "total_tokens", 0) + tokens),
                    "last_call_at", t),
                    "daily_stats", Put(daily, t, day2))
    IN  save_config([st EXCEPT !.config = Put(st.config, "usage_stats", stats2)])

\* return values of the public operations
RetNone == [kind |-> "none"]
RetBool(b) == [kind |-> "bool", ok |-> b]
RetRaise(e) == [kind |-> "raise", exc |-> e]
RetStatus(s) == [kind |-> "status", status |-> s]
RetStatuses(r) == [kind |-> "statuses", results |-> r]
RetResponse(r) == [kind |-> "response", response |-> r]

\* the outcome of a handler: the manager afterwards and what it returned
Outcome(st, ret) == [st |-> st, ret |-> ret]

\* LLMManager.set_api_key
set_api_key(st, p, key) ==
    IF "providers" \notin DOMAIN st.config
    THEN Outcome(st, RetRaise("KeyError"))
    ELSE IF p \in DOMAIN st.config.providers
    THEN LET s1 == save_config([st EXCEPT
                       !.config.providers[p].api_key = key,
                       !.config.providers[p].enabled = (key # EmptyKey)])
         IN  Outcome([s1 EXCEPT !.clients = init_clients(s1.config)],
                     RetBool(TRUE))
    ELSE Outcome(st, RetBool(FALSE))

\* dict.update(updates) on a provider config
UpdateDict(d, updates) ==
    [k \in DOMAIN d \cup DOMAIN updates |->
        IF k \in DOMAIN updates THEN updates[k] ELSE d[k]]

\* LLMManager.update_provider_config
update_provider_config(st, p, updates) ==
    IF "providers" \notin DOMAIN st.config
    THEN Outcome(st, RetRaise("KeyError"))
    ELSE IF p \in DOMAIN st.config.providers
    THEN LET s1 == save_config([st EXCEPT !.config.providers[p] =
                                    UpdateDict(@, updates)])
         IN  Outcome([s1 EXCEPT !.clients = init_clients(s1.config)],
                     RetBool(TRUE))
    ELSE Outcome(st, RetBool(FALSE))

\* LLMManager.set_active_provider
set_active_provider(st, p) ==
    IF "providers" \notin DOMAIN st.config
    THEN Outcome(st, RetRaise("KeyError"))
    ELSE IF p \in DOMAIN st.config.providers
    THEN Outcome(save_config([st EXCEPT !.config.active_provider = p]),
                 RetBool(TRUE))
    ELSE Outcome(st, RetBool(FALSE))

\* LLMManager.check_key
check_key(st, p, answer, t) ==
    IF p \in DOMAIN st.clients
    THEN LET status == check_key_status(p, st.clients[p],
                           st.config.providers[p].name, answer, t)
         IN  Outcome(save_config([st EXCEPT
                        !.config.providers[p].key_status = status]),
                     RetStatus(status))
    ELSE Outcome(st, RetStatus([valid |-> FALSE,
                                error |-> "provider_not_found"]))

\* LLMManager.check_all_keys: answers gives the backend's answer per client
check_all_keys(st, answers, t) ==
    LET results == [p \in DOMAIN st.clients |->
                       check_key_status(p, st.clients[p],
                           st.config.providers[p].name, answers[p], t)]
        cfg == IF DOMAIN st.clients = {}
               THEN st.config
               ELSE [st.config EXCEPT !.providers =
                        [p \in DOMAIN @ |->
                            IF p \in DOMAIN results
                            THEN [@[p] EXCEPT !.key_status = results[p]]
                            ELSE @[p]]]
    IN  Outcome(save_config([st EXCEPT !.config = cfg]), RetStatuses(results))

(***************************************************************************)
(* LLMManager.call, one provider invocation at a time                      *)
(***************************************************************************)
\* a synthetic response that names no sentinel provider
NoneResponse_blank ==
    LLMResponse(FALSE, "", "", "none", 0, "no provider available", None)

\* the synthetic response of lines 166-173
NoneResponse ==
    LLMResponse(FALSE, "", "none", "none", 0, "no provider available", None)

\* lines 146-154 with a success also marking the key valid again
call_primary_healing(st, prim, answer, t) ==
    LET resp == ClientCall(prim, st.clients[prim],
                           st.config.providers[prim].name, answer)
    IN  IF resp.success
        THEN [st |-> record_usage(
                        [st EXCEPT !.config.providers[prim].key_status =
                            KeyStatus(TRUE, t, None, "valid")],
                        prim, resp.tokens_used, t),
              resp |-> resp, done |-> TRUE]
        ELSE [st |-> IF IsKeyError(resp.error_code)
                     THEN mark_key_invalid(st, prim, resp.error_code, t)
                     ELSE st,
              resp |-> resp, done |-> FALSE]

\* lines 146-154: the active provider has a client and is invoked.
\* done: the call returns resp; otherwise it goes on to the fallback loop.
call_primary(st, prim, answer, t) ==
    LET resp == ClientCall(prim, st.clients[prim],
                           st.config.providers[prim].name, answer)
    IN  IF resp.success
        THEN [st |-> record_usage(st, prim, resp.tokens_used, t),
              resp |-> resp, done |-> TRUE]
        ELSE [st |-> IF IsKeyError(resp.error_code)
                     THEN mark_key_invalid(st, prim, resp.error_code, t)
                     ELSE st,
              resp |-> resp, done |-> FALSE]

\* line 157-158: the sequence the fallback loop iterates over
fallback_sequence(cfg) ==
    IF Get(cfg, "auto_fallback", TRUE)
    THEN Get(cfg, "fallback_order", << >>)
    ELSE << >>

\* the test of line 159 without "fallback != primary"
fallback_eligible_any(st, prim, f) == f \in DOMAIN st.clients

\* line 159: is this entry of fallback_order invoked
fallback_eligible(st, prim, f) == f # prim /\ f \in DOMAIN st.clients

\* lines 160-163: one fallback provider is invoked
call_fallback(st, f, answer, t) ==
    LET resp == ClientCall(f, st.clients[f],
                           st.config.providers[f].name, answer)
    IN  IF resp.success
        THEN [st |-> record_usage(st, f, resp.tokens_used, t),
              resp |-> resp, done |-> TRUE]
        ELSE [st |-> st, resp |-> resp, done |-> FALSE]

(***************************************************************************)
(* The state machine                                                       *)
(***************************************************************************)
VARIABLES
    pc,         \* "new" before __init__, "idle" between operations,
                \* "fallback" inside call's fallback loop, "crashed"
    file,       \* the user config file (LLM_CONFIG_FILE)
    bundled,    \* the bundled default config file (DEFAULT_CONFIG_PATH)
    config,     \* LLMManager.config
    clients,    \* LLMManager.clients
    now,        \* the clock (day)
    nops,       \* public operations started so far
    primary,    \* call's local `primary`
    idx,        \* call's position in fallback_order (1-based)
    lastOp,     \* history: the operation run last
    ret,        \* history: what it returned
    trace,      \* history: the provider invocations of the last call
    cfg0,       \* history: config when the last operation started
    t0,         \* history: the clock when the last operation started
    firstRun,   \* history: the user config file as __init__ found it
    arg,        \* history: the arguments of the last operation
    budget,     \* public operations this run may perform
    wins        \* history: calls that have returned a successful response

\* AIContentCache (src/src/data/cache.py)
VARIABLES
    cache,      \* AIContentCache._cache
    cacheFile,  \* CACHE_FILE
    clock,      \* the clock (day) the cache reads
    cacheOps,   \* cache operations performed so far
    cacheLast   \* history: the last cache operation, its arguments, the
                \* cache and clock it started from, and what it returned

\* a key probe of one provider client
VARIABLES
    probe,      \* the client probed, the backend's answer and the result
    remind      \* a key status, the instant, and should_remind_expiry's result

\* two LLMManager instances over one config file
VARIABLES
    inst,       \* the instances: config, clients, whether constructed
    disk,       \* the config file they share
    writer,     \* history: the instance that wrote the file last
    sharedOps   \* operations the two instances have performed

mvars == <<pc, file, bundled, config, clients, now, nops, primary, idx,
           lastOp, ret, trace, cfg0, t0, firstRun, arg, budget, wins>>
cvars == <<cache, cacheFile, clock, cacheOps, cacheLast>>
pvars == <<probe, remind>>
svars == <<inst, disk, writer, sharedOps>>
vars == <<mvars, cvars, pvars, svars>>

\* what the manager's operations leave alone
NotManager == <<cvars, pvars, svars>>

Manager == [config |-> config, file |-> file, clients |-> clients]

\* an operation without arguments
NoArg == [p |-> "none"]

\* the cache and the probe while the manager is the system under study
CacheOff ==
    /\ cache = EmptyDoc
    /\ cacheFile = AbsentFile
    /\ clock = 1
    /\ cacheOps = 0
    /\ cacheLast = [op |-> "none"]

ProbeOff == probe = [phase |-> "off"] /\ remind = [phase |-> "off"]

SharedOff ==
    /\ inst = << >>
    /\ disk = AbsentFile
    /\ writer = 0
    /\ sharedOps = 0

\* config documents a user file can hold when the application starts
StatusChecked == KeyStatus(TRUE, 1, None, "valid")

UsedUsage ==
    [total_calls |-> 1, total_tokens |-> 1, last_call_at |-> 1,
     daily_stats |-> (1 :> [calls |-> 1, tokens |-> 1,
                            by_provider |->
                               ("glm4" :> [calls |-> 1, tokens |-> 1])])]

ConfiguredDoc(active, auto, order, keyed, usage) ==
    [DefaultConfig EXCEPT
        !.usage_stats = usage,
        !.active_provider = active,
        !.auto_fallback = auto,
        !.fallback_order = order,
        !.providers = [p \in CLIENT_CLASSES |->
            IF p \in keyed
            THEN [DefaultProvider(p) EXCEPT !.enabled = TRUE,
                                            !.api_key = DottedKey,
                                            !.key_status = StatusChecked]
            ELSE DefaultProvider(p)]]

FallbackOrders ==
    {<<"deepseek", "glm4", "qwen", "openai">>,
     <<"openai", "qwen", "glm4", "deepseek">>,
     <<"glm4", "qwen", "glm4">>}

KeyedSets == {{"deepseek", "glm4", "qwen"}, {"glm4", "openai"}}

UserDocs ==
    {ConfiguredDoc(a, f, o, k, u) :
        a \in CLIENT_CLASSES, f \in BOOLEAN, o \in FallbackOrders,
        k \in KeyedSets, u \in {DefaultUsage, UsedUsage}}

ManagerNew ==
    /\ pc = "new"
    /\ config = EmptyDoc
    /\ clients = EmptyDoc
    /\ now = 1
    /\ nops = 0
    /\ primary = "deepseek"
    /\ idx = 0
    /\ lastOp = "none"
    /\ ret = RetNone
    /\ trace = << >>
    /\ cfg0 = EmptyDoc
    /\ t0 = 1
    /\ firstRun = file
    /\ arg = NoArg
    /\ wins = 0

Init ==
    /\ \/ file \in {FileOf(d) : d \in UserDocs} /\ bundled = FileOf(DefaultConfig)
       \/ file \in {AbsentFile, CorruptFile}
          /\ bundled \in {AbsentFile, FileOf(DefaultConfig)}
    /\ ManagerNew
    /\ budget = MaxOps
    /\ CacheOff
    /\ ProbeOff
    /\ SharedOff

\* LLMManager.__init__
Construct ==
    /\ pc = "new"
    /\ LET r == load_config(file, bundled) IN
       IF r.raised
       THEN /\ pc' = "crashed"
            /\ ret' = RetRaise("AttributeError")
            /\ UNCHANGED <<file, config, clients>>
       ELSE /\ pc' = "idle"
            /\ ret' = RetNone
            /\ file' = r.file
            /\ config' = r.config
            /\ clients' = init_clients(r.config)
    /\ lastOp' = "__init__"
    /\ UNCHANGED <<bundled, now, nops, primary, idx, trace, cfg0, t0,
                   firstRun, arg, budget, wins>>
    /\ UNCHANGED NotManager

\* a public operation that runs to completion in one step
Complete(op, a, out) ==
    /\ nops' = nops + 1
    /\ lastOp' = op
    /\ arg' = a
    /\ cfg0' = config
    /\ t0' = now
    /\ config' = out.st.config
    /\ file' = out.st.file
    /\ clients' = out.st.clients
    /\ ret' = out.ret
    /\ trace' = << >>
    /\ UNCHANGED <<pc, bundled, now, primary, idx, firstRun, budget, wins>>
    /\ UNCHANGED NotManager

CanStart == pc = "idle" /\ nops < budget

SetApiKey ==
    /\ CanStart
    /\ \E p \in ProviderArgs, key \in Keys :
          Complete("set_api_key", [p |-> p, key |-> key],
                   set_api_key(Manager, p, key))

Updates == {[enabled |-> FALSE], [enabled |-> TRUE], [api_key |-> EmptyKey],
            [api_key |-> DottedKey]}

UpdateProviderConfig ==
    /\ CanStart
    /\ \E p \in ProviderArgs, updates \in Updates :
          Complete("update_provider_config",
                   [p |-> p, updates |-> updates],
                   update_provider_config(Manager, p, updates))

SetActiveProvider ==
    /\ CanStart
    /\ \E p \in ProviderArgs :
          Complete("set_active_provider", [p |-> p],
                   set_active_provider(Manager, p))

CheckKey ==
    /\ CanStart
    /\ \E p \in ProviderArgs, answer \in FewAnswers :
          Complete("check_key", [p |-> p],
                   check_key(Manager, p, answer, now))

CheckAllKeys ==
    /\ CanStart
    /\ \E answers \in [DOMAIN clients -> FewAnswers] :
          Complete("check_all_keys", NoArg,
                   check_all_keys(Manager, answers, now))

Invocation(p, resp) == [provider |-> p, response |-> resp]

\* call, up to and including the invocation of the active provider
CallPrimary ==
    /\ CanStart
    /\ nops' = nops + 1
    /\ lastOp' = "call"
    /\ arg' = [p |-> "none", clients |-> clients]
    /\ cfg0' = config
    /\ t0' = now
    /\ LET prim == Get(config, "active_provider", "deepseek") IN
       /\ primary' = prim
       /\ IF prim \in DOMAIN clients
          THEN \E answer \in Answers :
                 LET r == call_primary(Manager, prim, answer, now) IN
                 /\ trace' = <<Invocation(prim, r.resp)>>
                 /\ config' = r.st.config
                 /\ file' = r.st.file
                 /\ pc' = IF r.done THEN "idle" ELSE "fallback"
                 /\ idx' = IF r.done THEN 0 ELSE 1
                 /\ ret' = IF r.done THEN RetResponse(r.resp) ELSE RetNone
                 /\ wins' = IF r.done /\ r.resp.success THEN wins + 1 ELSE wins
          ELSE /\ trace' = << >>
               /\ pc' = "fallback"
               /\ idx' = 1
               /\ ret' = RetNone
               /\ UNCHANGED <<config, file, wins>>
    /\ UNCHANGED <<bundled, clients, now, firstRun, budget>>
    /\ UNCHANGED NotManager

\* call, one iteration of the fallback loop, or its end
CallFallback ==
    /\ pc = "fallback"
    /\ LET order == fallback_sequence(config) IN
       IF idx > Len(order)
       THEN /\ pc' = "idle"
            /\ ret' = RetResponse(NoneResponse)
            /\ idx' = 0
            /\ UNCHANGED <<config, file, trace, wins>>
       ELSE LET f == order[idx] IN
            IF fallback_eligible(Manager, primary, f)
            THEN \E answer \in FewAnswers :
                   LET r == call_fallback(Manager, f, answer, now) IN
                   /\ trace' = Append(trace, Invocation(f, r.resp))
                   /\ config' = r.st.config
                   /\ file' = r.st.file
                   /\ pc' = IF r.done THEN "idle" ELSE "fallback"
                   /\ ret' = IF r.done THEN RetResponse(r.resp) ELSE RetNone
                   /\ idx' = IF r.done THEN 0 ELSE idx + 1
                   /\ wins' = IF r.done /\ r.resp.success
                              THEN wins + 1 ELSE wins
            ELSE /\ idx' = idx + 1
                 /\ UNCHANGED <<pc, ret, config, file, trace, wins>>
    /\ UNCHANGED <<bundled, clients, now, nops, primary, lastOp, cfg0, t0,
                   firstRun, arg, budget>>
    /\ UNCHANGED NotManager

\* the day changes before an operation
Tick ==
    /\ CanStart
    /\ now < MaxDay
    /\ now' = now + 1
    /\ UNCHANGED <<pc, file, bundled, config, clients, nops, primary, idx,
                   lastOp, ret, trace, cfg0, t0, firstRun, arg, budget, wins>>
    /\ UNCHANGED NotManager

Next ==
    \/ Construct
    \/ SetApiKey
    \/ UpdateProviderConfig
    \/ SetActiveProvider
    \/ CheckKey
    \/ CheckAllKeys
    \/ CallPrimary
    \/ CallFallback
    \/ Tick

Spec == Init /\ [][Next]_vars

(***************************************************************************)
(* The manager under key and provider-config changes followed by calls     *)
(***************************************************************************)
MaxPoolOps == 2    \* public operations performed in this specification

PoolDocs ==
    {ConfiguredDoc(a, TRUE, DefaultConfig.fallback_order, k, DefaultUsage) :
        a \in {"deepseek", "openai"}, k \in KeyedSets}

PoolInit ==
    /\ file \in {FileOf(d) : d \in PoolDocs} \cup {AbsentFile}
    /\ bundled = AbsentFile
    /\ ManagerNew
    /\ budget = MaxPoolOps
    /\ CacheOff
    /\ ProbeOff
    /\ SharedOff

PoolNext ==
    \/ Construct
    \/ SetApiKey
    \/ UpdateProviderConfig
    \/ CallPrimary
    \/ CallFallback

SpecPool == PoolInit /\ [][PoolNext]_vars

TypeOK ==
    /\ pc \in {"new", "idle", "fallback", "crashed"}
    /\ now \in 1..MaxDay
    /\ nops \in 0..MaxOps
    /\ DOMAIN clients \subseteq CLIENT_CLASSES

(***************************************************************************)
(* Vocabulary of the properties                                            *)
(***************************************************************************)
\* the last operation is a call and it has returned
CallReturned == lastOp = "call" /\ pc = "idle"

\* the state the call started from
ActiveAtStart == Get(cfg0, "active_provider", "deepseek")
AutoFallbackAtStart == Get(cfg0, "auto_fallback", TRUE)
OrderAtStart == Get(cfg0, "fallback_order", << >>)
Live == DOMAIN clients

\* the fallback candidates in the order the spec gives them
IsCandidate(f) == f # ActiveAtStart /\ f \in Live
Candidates == IF AutoFallbackAtStart THEN SelectSeq(OrderAtStart, IsCandidate)
              ELSE << >>

\* the providers a call may invoke, in order
Schedule == (IF ActiveAtStart \in Live THEN <<ActiveAtStart>> ELSE << >>)
            \o Candidates

Failed(i) == ~trace[i].response.success
Succeeded(i) == trace[i].response.success

\* the active provider was invoked and failed
ActiveFailed ==
    /\ lastOp = "call"
    /\ Len(trace) >= 1
    /\ trace[1].provider = ActiveAtStart
    /\ Failed(1)

\* error codes that stand for a bad credential / for a transport failure
BadCredentialCodes == {"invalid_api_key", "insufficient_quota",
                       "missing_api_key"}
TransportCodes == {"network_error", "timeout"}

Persisted == file = FileOf(config)

\* usage statistics of a config document
Usage(cfg) == cfg.usage_stats
Bucket(cfg, d) ==
    Get(Usage(cfg).daily_stats, d,
        [calls |-> 0, tokens |-> 0, by_provider |-> EmptyDoc])
SubBucket(cfg, d, p) ==
    Get(Bucket(cfg, d).by_provider, p, [calls |-> 0, tokens |-> 0])

(***************************************************************************)
(* Properties                                                              *)
(***************************************************************************)

\* C1: a call invokes providers one after another along the schedule "active
\* provider if live, then (only with auto_fallback) the live non-active
\* entries of fallback_order in order"; every invocation but the last has
\* failed; the call returns the first successful response, and otherwise
\* has gone through the whole schedule.
C1_SequentialFallback ==
    lastOp = "call" =>
        /\ Len(trace) <= Len(Schedule)
        /\ \A i \in 1..Len(trace) : trace[i].provider = Schedule[i]
        /\ \A i \in 1..(Len(trace) - 1) : Failed(i)
        /\ ~AutoFallbackAtStart =>
              \A i \in 1..Len(trace) : trace[i].provider = ActiveAtStart
        /\ pc = "idle" =>
              \/ /\ Len(trace) >= 1
                 /\ Succeeded(Len(trace))
                 /\ ret = RetResponse(trace[Len(trace)].response)
              \/ /\ Len(trace) = Len(Schedule)
                 /\ \A i \in 1..Len(trace) : Failed(i)
        /\ pc = "fallback" => \A i \in 1..Len(trace) : Failed(i)

C1_Witness ==
    /\ CallReturned
    /\ Len(trace) = 3
    /\ Succeeded(3)
    /\ Len(OrderAtStart) = 4
    /\ trace[1].provider = ActiveAtStart

C3_FallbackSuccessAccounting ==
    (CallReturned /\ ActiveFailed /\ Succeeded(Len(trace))) =>
        LET last == trace[Len(trace)]
            succ == last.provider
            tok == last.response.tokens_used
        IN  /\ ret = RetResponse(last.response)
            /\ ret.response.success
            /\ ret.response.provider = config.providers[succ].name
            /\ Usage(config).total_calls = Usage(cfg0).total_calls + 1
            /\ Usage(config).total_tokens = Usage(cfg0).total_tokens + tok
            /\ Bucket(config, t0).calls = Bucket(cfg0, t0).calls + 1
            /\ Bucket(config, t0).tokens = Bucket(cfg0, t0).tokens + tok
            /\ SubBucket(config, t0, succ) =
                  [calls |-> SubBucket(cfg0, t0, succ).calls + 1,
                   tokens |-> SubBucket(cfg0, t0, succ).tokens + tok]
            /\ \A d \in 1..MaxDay, p \in CLIENT_CLASSES :
                  (d # t0 \/ p # succ) =>
                      SubBucket(config, d, p) = SubBucket(cfg0, d, p)
            /\ \A d \in 1..MaxDay :
                  d # t0 => Bucket(config, d) = Bucket(cfg0, d)

C3_Witness ==
    /\ CallReturned /\ ActiveFailed
    /\ Succeeded(Len(trace))
    /\ trace[Len(trace)].provider = "glm4"
    /\ Usage(cfg0).total_calls = 1
    /\ Usage(config).total_tokens = 1 + MaxTokens

\* C4: when every invocation of a call failed (or none was made), the call
\* returns the "none" response.
C4_AllFailedGivesNone ==
    (CallReturned /\ \A i \in 1..Len(trace) : Failed(i)) =>
        /\ ret.kind = "response"
        /\ ret.response.success = FALSE
        /\ ret.response.provider = "none"
        /\ ret.response.model = "none"
        /\ ret.response.tokens_used = 0

C4_Witness ==
    /\ CallReturned
    /\ Len(trace) = 3
    /\ \A i \in 1..3 : Failed(i)

\* C5: when the active provider failed with a transport error, its
\* key_status stays what it was, and with auto_fallback the call goes on to
\* the first fallback candidate.
C5_TransportErrorKeepsStatus ==
    (ActiveFailed /\ trace[1].response.error_code \in TransportCodes) =>
        /\ config.providers[ActiveAtStart].key_status =
              cfg0.providers[ActiveAtStart].key_status
        /\ (pc = "idle" /\ Len(Candidates) >= 1) =>
              /\ Len(trace) >= 2
              /\ trace[2].provider = Candidates[1]

C5_Witness ==
    /\ CallReturned /\ ActiveFailed
    /\ trace[1].response.error_code = "timeout"
    /\ Len(trace) >= 2
    /\ trace[2].provider = OrderAtStart[2]

\* C6: first run without a user config file and without a bundled default:
\* the manager holds the hard-coded default and the file holds it too.
C6_FirstRunDefault ==
    (lastOp = "__init__" /\ firstRun = AbsentFile /\ bundled = AbsentFile)
    => /\ pc = "idle"
       /\ config = DefaultConfig
       /\ file = FileOf(DefaultConfig)

\* C7: an unparseable user config file: construction does not crash and the
\* manager holds the bundled default, or the hard-coded default when there
\* is no bundled file, with all four providers configured.
C7_CorruptConfigDegrades ==
    (lastOp = "__init__" /\ firstRun = CorruptFile)
    => /\ pc = "idle"
       /\ config = IF bundled.exists THEN bundled.doc ELSE DefaultConfig
       /\ DOMAIN Get(config, "providers", EmptyDoc) = CLIENT_CLASSES

\* C8: within one call no provider is invoked twice.
C8_NoProviderTwice ==
    lastOp = "call" =>
        \A i, j \in 1..Len(trace) :
            i # j => trace[i].provider # trace[j].provider

\* C9: every provider that failed with a bad-credential code during a call,
\* active or fallback, has key_status.valid false when the call returns.
C9_AnyCredentialFailureMarked ==
    CallReturned =>
        \A i \in 1..Len(trace) :
            (Failed(i) /\ trace[i].response.error_code \in BadCredentialCodes)
            => config.providers[trace[i].provider].key_status.valid = FALSE

\* C10: once a mutating operation has changed the config, or has taken the
\* path that writes it, the file holds exactly the in-memory config.
TookEffect ==
    \/ lastOp \in {"set_api_key", "update_provider_config",
                   "set_active_provider"} /\ ret = RetBool(TRUE)
    \/ lastOp = "check_key" /\ ret.status.error # "provider_not_found"
    \/ lastOp = "check_all_keys"
    \/ /\ lastOp = "call"
       /\ \/ \E i \in 1..Len(trace) : Succeeded(i)
          \/ ActiveFailed
             /\ trace[1].response.error_code \in BadCredentialCodes

C10_NoUnpersistedMutation ==
    (lastOp \notin {"none", "__init__"} /\ (TookEffect \/ config # cfg0))
    => Persisted

C10_Witness ==
    /\ CallReturned
    /\ ret = RetResponse(NoneResponse)
    /\ config # cfg0
    /\ Persisted

\* the providers configured when the last operation started
ConfiguredAtStart == DOMAIN Get(cfg0, "providers", EmptyDoc)

\* C11: the client pool holds exactly the providers that are enabled and
\* have a non-empty api_key, each with that key; set_api_key on a configured
\* provider stores the key and sets enabled to "key is non-empty"; a call
\* never invokes a provider whose api_key is empty.
C11_PoolIsEnabledAndKeyed ==
    /\ pc \in {"idle", "fallback"} =>
          LET providers == Get(config, "providers", EmptyDoc) IN
          /\ DOMAIN clients =
                {p \in DOMAIN providers :
                    providers[p].enabled /\ providers[p].api_key # EmptyKey}
          /\ \A p \in DOMAIN clients :
                clients[p].api_key = providers[p].api_key
    /\ (lastOp = "set_api_key" /\ arg.p \in ConfiguredAtStart) =>
          /\ ret = RetBool(TRUE)
          /\ config.providers[arg.p].api_key = arg.key
          /\ config.providers[arg.p].enabled = (arg.key # EmptyKey)
    /\ lastOp = "call" =>
          \A i \in 1..Len(trace) :
              /\ config.providers[trace[i].provider].api_key # EmptyKey
              /\ trace[i].response.error_code # "missing_api_key"

C11_Witness ==
    /\ CallReturned
    /\ nops = 2
    /\ ActiveAtStart \in ConfiguredAtStart
    /\ config.providers[ActiveAtStart].enabled
    /\ config.providers[ActiveAtStart].api_key = EmptyKey
    /\ Len(trace) >= 1

\* C12: set_active_provider with an id that is not configured returns false
\* and changes nothing; with a configured id it returns true and the id is
\* the active provider afterwards.
C12_SetActiveProvider ==
    lastOp = "set_active_provider" =>
        IF arg.p \in ConfiguredAtStart
        THEN /\ ret = RetBool(TRUE)
             /\ config.active_provider = arg.p
             /\ Persisted
        ELSE /\ ret = RetBool(FALSE)
             /\ config = cfg0

(***************************************************************************)
(* AIContentCache (src/data/cache.py)                                      *)
(*                                                                         *)
(* A string is the sequence of its parts, every "_" being a part of its    *)
(* own, so that split('_') and startswith act on it as they do on the      *)
(* text.  A datetime is a count of half days; a date is a count of days.   *)
(***************************************************************************)
MaxCacheOps == 1   \* cache operations and clock advances performed
MaxClock == 18     \* last instant the clock reaches
TicksPerDay == 2

Nutrition == <<"nutrition">>
Relaxation == <<"relaxation">>
StandUp == <<"stand", "_", "up">>
Posture == <<"posture">>
DailyTips == <<"daily", "_", "tips">>
DietAnalysis == <<"diet", "_", "analysis">>
\* a content type that CACHE_RULES does not register
Recipe == <<"recipe">>
\* content_type = None
NoType == << >>
\* get_cache_key returning None
NoKey == << >>

Rule(ttl, group) == [ttl_days |-> ttl, group_by |-> group]

\* AIContentCache.CACHE_RULES
CACHE_RULES ==
    [t \in {Nutrition, Relaxation, StandUp, Posture, DailyTips, DietAnalysis}
        |-> CASE t = Nutrition -> Rule(7, "week")
              [] t = Relaxation -> Rule(0, None)
              [] t = StandUp -> Rule(1, "date")
              [] t = Posture -> Rule(7, "week")
              [] t = DailyTips -> Rule(1, "date")
              [] OTHER -> Rule(1, "date")]

ContentTypes == DOMAIN CACHE_RULES \cup {Recipe}

\* date.isoformat(), by day number
IsoDates ==
    <<"2024-01-01", "2024-01-02", "2024-01-03", "2024-01-04", "2024-01-05",
      "2024-01-06", "2024-01-07", "2024-01-08", "2024-01-09", "2024-01-10",
      "2024-01-11", "2024-01-12">>
\* the time of day in datetime.isoformat(), by half day
IsoTimes == <<"T06:00:00", "T18:00:00">>
\* str(week) inside the f-string
Str(n) == <<"0", "1", "2", "3">>[n + 1]

\* date.today().isoformat()
today(t) == IsoDates[(t \div TicksPerDay) + 1]
\* datetime.now().isoformat()
isoformat(t) == <<IsoDates[(t \div TicksPerDay) + 1], IsoTimes[(t % TicksPerDay) + 1]>>
\* the instants whose text datetime.fromisoformat can return
Instants == 0..(Len(IsoDates) * TicksPerDay - 1)
\* datetime.fromisoformat succeeds
is_isoformat(text) == \E t \in Instants : isoformat(t) = text
\* datetime.fromisoformat
fromisoformat(text) == CHOOSE t \in Instants : isoformat(t) = text

\* str.split('_')[0]
split_head(text) ==
    LET at == {i \in 1..Len(text) : text[i] = "_"}
    IN  IF at = {} THEN text
        ELSE SubSeq(text, 1, (CHOOSE i \in at : \A j \in at : i <= j) - 1)

\* str.startswith
startswith(text, prefix) ==
    /\ Len(prefix) <= Len(text)
    /\ SubSeq(text, 1, Len(prefix)) = prefix

\* get_cache_key that gives ungrouped and unregistered types a key too
get_cache_key_always(content_type, context, t) ==
    LET group_by == IF content_type \in DOMAIN CACHE_RULES
                    THEN CACHE_RULES[content_type].group_by ELSE None
    IN  IF group_by = "week"
        THEN content_type \o <<"_", "week", "_", Str(Get(context, "week", 0))>>
        ELSE content_type \o <<"_", Get(context, "date", today(t))>>

\* AIContentCache.get_cache_key
get_cache_key(content_type, context, t) ==
    IF content_type \notin DOMAIN CACHE_RULES
    THEN NoKey
    ELSE LET group_by == CACHE_RULES[content_type].group_by
         IN  CASE group_by = "week" ->
                    content_type \o <<"_", "week", "_", Str(Get(context, "week", 0))>>
               [] group_by = "date" ->
                    content_type \o <<"_", Get(context, "date", today(t))>>
               [] OTHER -> NoKey

\* AIContentCache._is_expired
is_expired(cached_data, content_type, t) ==
    IF content_type \notin DOMAIN CACHE_RULES
    THEN TRUE
    ELSE LET rule == CACHE_RULES[content_type]
             created_at == Get(cached_data, "created_at", << >>)
         IN  IF rule.ttl_days = 0 THEN TRUE
             ELSE IF created_at = << >> THEN TRUE
             ELSE IF ~is_isoformat(created_at) THEN TRUE
             ELSE t > fromisoformat(created_at) + rule.ttl_days * TicksPerDay

\* doc without key: del self._cache[key]
Del(doc, keys) == [k \in DOMAIN doc \ keys |-> doc[k]]

RetContent(v) == [kind |-> "content", content |-> v]
RetCount(n) == [kind |-> "count", count |-> n]
RetStats(st) == [kind |-> "stats", stats |-> st]

\* the cache and its file after a method, and what the method returned
CacheOutcome(c, f, r) == [cache |-> c, file |-> f, ret |-> r]

\* values that are false in a condition: None and ""
Falsy == {None, ""}

\* get that takes an empty content for a miss
get_truthy(c, f, content_type, context, t) ==
    LET cache_key == get_cache_key(content_type, context, t) IN
    IF cache_key = NoKey \/ cache_key \notin DOMAIN c
    THEN CacheOutcome(c, f, RetContent(None))
    ELSE IF is_expired(c[cache_key], content_type, t)
    THEN CacheOutcome(Del(c, {cache_key}), save_json(Del(c, {cache_key})),
                      RetContent(None))
    ELSE IF c[cache_key].content \in Falsy
    THEN CacheOutcome(c, f, RetContent(None))
    ELSE CacheOutcome(c, f, RetContent(c[cache_key].content))

\* get that reports an expired entry as a miss and keeps it
get_keep(c, f, content_type, context, t) ==
    LET cache_key == get_cache_key(content_type, context, t) IN
    IF cache_key = NoKey \/ cache_key \notin DOMAIN c
    THEN CacheOutcome(c, f, RetContent(None))
    ELSE IF is_expired(c[cache_key], content_type, t)
    THEN CacheOutcome(c, f, RetContent(None))
    ELSE CacheOutcome(c, f, RetContent(c[cache_key].content))

\* AIContentCache.get
get(c, f, content_type, context, t) ==
    LET cache_key == get_cache_key(content_type, context, t) IN
    IF cache_key = NoKey \/ cache_key \notin DOMAIN c
    THEN CacheOutcome(c, f, RetContent(None))
    ELSE IF is_expired(c[cache_key], content_type, t)
    THEN CacheOutcome(Del(c, {cache_key}), save_json(Del(c, {cache_key})),
                      RetContent(None))
    ELSE CacheOutcome(c, f, RetContent(c[cache_key].content))

\* AIContentCache.set
set(c, f, content_type, context, content, t) ==
    LET cache_key == get_cache_key(content_type, context, t) IN
    IF cache_key = NoKey
    THEN CacheOutcome(c, f, RetBool(FALSE))
    ELSE LET entry == [content |-> content, created_at |-> isoformat(t),
                       context |-> context]
             after == Put(c, cache_key, entry)
         IN  CacheOutcome(after, save_json(after), RetBool(TRUE))

\* clear that matches the part of the key before its first "_"
clear_by_head(c, f, content_type) ==
    LET after == IF content_type # NoType
                 THEN Del(c, {k \in DOMAIN c : split_head(k) = content_type})
                 ELSE EmptyDoc
    IN  CacheOutcome(after, save_json(after), RetBool(TRUE))

\* AIContentCache.clear
clear(c, f, content_type) ==
    LET after == IF content_type # NoType
                 THEN Del(c, {k \in DOMAIN c : startswith(k, content_type)})
                 ELSE EmptyDoc
    IN  CacheOutcome(after, save_json(after), RetBool(TRUE))

\* AIContentCache.clear_expired
clear_expired(c, f, t) ==
    LET expired_keys == {k \in DOMAIN c : is_expired(c[k], split_head(k), t)}
        after == Del(c, expired_keys)
    IN  CacheOutcome(after,
                     IF expired_keys # {} THEN save_json(after) ELSE f,
                     RetCount(Cardinality(expired_keys)))

\* AIContentCache.get_stats
get_stats(c) ==
    [total_items |-> Cardinality(DOMAIN c),
     by_type |-> [h \in {split_head(k) : k \in DOMAIN c} |->
                    Cardinality({k \in DOMAIN c : split_head(k) = h})]]

(***************************************************************************)
(* The cache as a state machine                                            *)
(***************************************************************************)
Contents == {"tips", "", None}
Contexts == {EmptyDoc, [week |-> 1], [date |-> IsoDates[1]]}

\* the instant at which an earlier run wrote the cache file
WrittenAt == 1
Stored(context, content) ==
    [content |-> content, created_at |-> isoformat(WrittenAt), context |-> context]
\* cache files an earlier run has left behind
PriorCaches ==
    {EmptyDoc,
     StandUp \o <<"_", IsoDates[1]>> :> Stored(EmptyDoc, "tips")
        @@ Nutrition \o <<"_", "week", "_", "1">> :> Stored([week |-> 1], "tips"),
     DailyTips \o <<"_", IsoDates[1]>> :> Stored([date |-> IsoDates[1]], "")
        @@ Posture \o <<"_", "week", "_", "0">> :> Stored(EmptyDoc, "tips")
        @@ DietAnalysis \o <<"_", IsoDates[1]>> :> Stored(EmptyDoc, None)}
\* the instants at which this run starts
StartClocks == {1, 3, 15}
\* how far the clock moves between two operations
ClockSteps == {1, 3}

CacheInit ==
    /\ file = AbsentFile
    /\ bundled = AbsentFile
    /\ ManagerNew
    /\ budget = 0
    /\ ProbeOff
    /\ SharedOff
    /\ cache = EmptyDoc
    /\ cacheFile \in {AbsentFile, CorruptFile} \cup {FileOf(c) : c \in PriorCaches}
    /\ clock \in StartClocks
    /\ cacheOps = 0
    /\ cacheLast = [op |-> "none"]

CacheDone(op, content_type, context, content, out) ==
    /\ cache' = out.cache
    /\ cacheFile' = out.file
    /\ cacheOps' = cacheOps + 1
    /\ cacheLast' = [op |-> op, type |-> content_type, context |-> context,
                     content |-> content, ret |-> out.ret, cache0 |-> cache,
                     file0 |-> cacheFile, clock0 |-> clock]
    /\ UNCHANGED <<clock, mvars, pvars, svars>>

CacheReady == cacheLast.op # "none" /\ cacheOps < MaxCacheOps

\* AIContentCache.__init__
CacheConstruct ==
    /\ cacheLast.op = "none"
    /\ cache' = load_json(cacheFile).doc
    /\ cacheLast' = [op |-> "__init__"]
    /\ UNCHANGED <<cacheFile, clock, cacheOps, mvars, pvars, svars>>

CacheGet ==
    /\ CacheReady
    /\ \E ty \in ContentTypes, ctx \in Contexts :
          CacheDone("get", ty, ctx, None, get(cache, cacheFile, ty, ctx, clock))

CacheSet ==
    /\ CacheReady
    /\ \E ty \in ContentTypes, ctx \in Contexts, v \in Contents :
          CacheDone("set", ty, ctx, v, set(cache, cacheFile, ty, ctx, v, clock))

CacheClear ==
    /\ CacheReady
    /\ \E ty \in DOMAIN CACHE_RULES \cup {NoType} :
          CacheDone("clear", ty, EmptyDoc, None, clear(cache, cacheFile, ty))

CacheClearExpired ==
    /\ CacheReady
    /\ CacheDone("clear_expired", NoType, EmptyDoc, None,
                 clear_expired(cache, cacheFile, clock))

CacheGetStats ==
    /\ CacheReady
    /\ CacheDone("get_stats", NoType, EmptyDoc, None,
                 CacheOutcome(cache, cacheFile, RetStats(get_stats(cache))))

\* time passes between two operations
CacheTick ==
    /\ CacheReady
    /\ \E d \in ClockSteps :
          /\ clock + d <= MaxClock
          /\ clock' = clock + d
    /\ cacheOps' = cacheOps + 1
    /\ UNCHANGED <<cache, cacheFile, cacheLast, mvars, pvars, svars>>

CacheNext ==
    \/ CacheConstruct
    \/ CacheGet
    \/ CacheSet
    \/ CacheClear
    \/ CacheClearExpired
    \/ CacheGetStats
    \/ CacheTick

SpecCache == CacheInit /\ [][CacheNext]_vars

(***************************************************************************)
(* Vocabulary of the cache properties                                      *)
(***************************************************************************)
\* the registered content type whose set call wrote the key
StoredUnder(k) ==
    CHOOSE ty \in DOMAIN CACHE_RULES : startswith(k, ty \o <<"_">>)

\* the entry is older than the TTL of the content type
Aged(entry, ty, t) ==
    t > fromisoformat(entry.created_at) + CACHE_RULES[ty].ttl_days * TicksPerDay

\* the content type has a grouping rule
Grouped(ty) == ty \in DOMAIN CACHE_RULES /\ CACHE_RULES[ty].group_by # None

\* the key the last operation worked on
LastKey == get_cache_key(cacheLast.type, cacheLast.context, cacheLast.clock0)

CacheDid(op) == cacheLast.op = op

\* C13: clear_expired removes exactly the entries older than the TTL of the
\* type they were stored under, keeps every other entry as it was, and
\* returns the number removed.
C13_ClearExpiredExact ==
    CacheDid("clear_expired") =>
        LET before == cacheLast.cache0
            aged == {k \in DOMAIN before :
                        Aged(before[k], StoredUnder(k), cacheLast.clock0)}
        IN  /\ cache = Del(before, aged)
            /\ cacheLast.ret = RetCount(Cardinality(aged))

\* C14: get_stats counts every entry under the content type it was stored
\* under, also for the types whose name contains an underscore.
C14_StatsByStoredType ==
    CacheDid("get_stats") =>
        LET by_type == cacheLast.ret.stats.by_type IN
        \A ty \in DOMAIN CACHE_RULES :
            LET n == Cardinality({k \in DOMAIN cache : StoredUnder(k) = ty})
            IN  n > 0 => ty \in DOMAIN by_type /\ by_type[ty] = n

\* C15: for a type with a grouping rule and a TTL above zero, get with the
\* same context at the instant of set returns the value that was set, empty
\* and null values included.
C15_RoundTrip ==
    /\ (/\ CacheDid("set")
        /\ Grouped(cacheLast.type)
        /\ CACHE_RULES[cacheLast.type].ttl_days > 0) =>
          /\ cacheLast.ret = RetBool(TRUE)
          /\ get(cache, cacheFile, cacheLast.type, cacheLast.context,
                 cacheLast.clock0).ret
                = RetContent(cacheLast.content)
    /\ (/\ CacheDid("get")
        /\ LastKey \in DOMAIN cacheLast.cache0
        /\ cacheLast.cache0[LastKey].created_at = isoformat(cacheLast.clock0)) =>
          cacheLast.ret = RetContent(cacheLast.cache0[LastKey].content)

C15_Witness ==
    /\ CacheDid("get")
    /\ LastKey \in DOMAIN cacheLast.cache0
    /\ cacheLast.cache0[LastKey].created_at = isoformat(cacheLast.clock0)
    /\ cacheLast.cache0[LastKey].content = ""
    /\ cacheLast.ret = RetContent("")

\* C16: get on an entry older than its type's TTL returns null and removes
\* the entry from the cache and the file, so that the total of get_stats is
\* one less; get on any other entry returns its content and changes nothing.
C16_GetEvictsExpired ==
    (CacheDid("get") /\ LastKey \in DOMAIN cacheLast.cache0) =>
        LET before == cacheLast.cache0 IN
        IF Aged(before[LastKey], cacheLast.type, cacheLast.clock0)
        THEN /\ cacheLast.ret = RetContent(None)
             /\ cache = Del(before, {LastKey})
             /\ cacheFile = FileOf(cache)
             /\ get_stats(cache).total_items = get_stats(before).total_items - 1
        ELSE /\ cacheLast.ret = RetContent(before[LastKey].content)
             /\ cache = before
             /\ cacheFile = cacheLast.file0

C16_Witness ==
    /\ CacheDid("get")
    /\ LastKey \in DOMAIN cacheLast.cache0
    /\ Aged(cacheLast.cache0[LastKey], cacheLast.type, cacheLast.clock0)
    /\ Cardinality(DOMAIN cache) >= 1

\* C17: for a content type without grouping rule, registered or not, set
\* returns false and stores nothing and get returns null; for a type with a
\* TTL of zero get returns null also right after set.
C17_UncacheableNeverHits ==
    /\ (CacheDid("set") /\ ~Grouped(cacheLast.type)) =>
          /\ cacheLast.ret = RetBool(FALSE)
          /\ cache = cacheLast.cache0
          /\ cacheFile = cacheLast.file0
          /\ get(cache, cacheFile, cacheLast.type, cacheLast.context, clock).ret
                = RetContent(None)
    /\ (CacheDid("get") /\ ~Grouped(cacheLast.type)) =>
          cacheLast.ret = RetContent(None)
    /\ (/\ cacheLast.op \in {"get", "set"}
        /\ cacheLast.type \in DOMAIN CACHE_RULES
        /\ CACHE_RULES[cacheLast.type].ttl_days = 0) =>
          /\ CacheDid("get") => cacheLast.ret = RetContent(None)
          /\ get(cache, cacheFile, cacheLast.type, cacheLast.context, clock).ret
                = RetContent(None)

C17_Witness ==
    /\ CacheDid("set")
    /\ cacheLast.type = Relaxation
    /\ cacheLast.content = "tips"
    /\ cacheLast.ret = RetBool(FALSE)
    /\ cacheLast.cache0 # EmptyDoc

\* C18: clear(type) removes every entry stored under the type and none
\* stored under another registered type, clear() removes every entry, and in
\* both cases the file holds the result.
C18_ClearFrame ==
    CacheDid("clear") =>
        LET before == cacheLast.cache0 IN
        /\ cache = IF cacheLast.type = NoType
                   THEN EmptyDoc
                   ELSE Del(before, {k \in DOMAIN before :
                                        StoredUnder(k) = cacheLast.type})
        /\ cacheFile = FileOf(cache)
        /\ cacheLast.ret = RetBool(TRUE)

C18_Witness ==
    /\ CacheDid("clear")
    /\ cacheLast.type = StandUp
    /\ DOMAIN cacheLast.cache0 # DOMAIN cache
    /\ cache # EmptyDoc

(***************************************************************************)
(* check_key_status of the four clients on its own                         *)
(***************************************************************************)
\* credentials as texts: "", "sk", "i.s", "a.b.c", ".b", "a."
ProbeKeys ==
    Keys \cup {<<"a", ".", "b", ".", "c">>, <<".", "b">>, <<"a", ".">>}

\* codes an error envelope can carry: those some client takes for a bad
\* credential, a code none of them lists, the default 'unknown', and the
\* http_<status> of a body that is not JSON
ProbeCodes ==
    UNION {KeyErrorCodes(p) : p \in CLIENT_CLASSES}
    \cup {"rate_limit_exceeded", "unknown", "http_500"}

ProbeAnswers ==
    {AnswerOk, AnswerTimeout, AnswerConnect, AnswerFault}
    \cup {AnswerBadBody(n) : n \in {401, 500}}
    \cup {AnswerHttp(c) : c \in ProbeCodes}

ProbeInit ==
    /\ file = AbsentFile
    /\ bundled = AbsentFile
    /\ ManagerNew
    /\ budget = 0
    /\ CacheOff
    /\ SharedOff
    /\ remind = [phase |-> "off"]
    /\ probe \in [phase : {"new"}, p : CLIENT_CLASSES, key : ProbeKeys,
                  answer : ProbeAnswers, t : 1..MaxDay]

\* client = <Client>(config); client.check_key_status()
ProbeCheck ==
    /\ probe.phase = "new"
    /\ LET client == [api_key |-> probe.key, model |-> DefaultModel(probe.p)]
           name == DefaultName(probe.p)
       IN  probe' =
             [phase |-> "done", p |-> probe.p, key |-> probe.key,
              answer |-> probe.answer, t |-> probe.t,
              called |-> check_key_calls(probe.p, client),
              sent |-> check_key_calls(probe.p, client)
                          /\ call_sends(probe.p, client),
              response |-> ClientCall(probe.p, client, name, probe.answer),
              status |-> check_key_status(probe.p, client, name,
                                          probe.answer, probe.t)]
    /\ UNCHANGED <<mvars, cvars, svars, remind>>

\* client = <Client>(config); client.call(prompt)
ProbeCall ==
    /\ probe.phase = "new"
    /\ LET client == [api_key |-> probe.key, model |-> DefaultModel(probe.p)]
           name == DefaultName(probe.p)
       IN  probe' =
             [phase |-> "called", p |-> probe.p, key |-> probe.key,
              answer |-> probe.answer, t |-> probe.t,
              requested |-> call_sends(probe.p, client),
              response |-> ClientCall(probe.p, client, name, probe.answer)]
    /\ UNCHANGED <<mvars, cvars, svars, remind>>

ProbeNext ==
    \/ ProbeCheck
    \/ ProbeCall

SpecProbe == ProbeInit /\ [][ProbeNext]_vars

\* the probe call of check_key_status was made
Probed == probe.phase = "done" /\ probe.called

\* failures that are not about the credential
TransientCodes == {"timeout", "network_error", "http_500", "unknown_error"}

\* C19: after a failed probe call the GLM client reports the key invalid
\* whatever the failure; the DeepSeek, OpenAI and Qwen clients report it
\* invalid exactly for the codes of their own list and valid for a timeout,
\* a network error, an http_<status> and an unknown error.  After a
\* successful probe call every client reports the key valid.
C19_ProbeClassification ==
    Probed =>
        IF probe.response.success
        THEN probe.status.valid
        ELSE /\ probe.status.error = probe.response.error_code
             /\ probe.p = "glm4" => ~probe.status.valid
             /\ probe.p # "glm4" =>
                   /\ probe.status.valid
                         = (probe.response.error_code \notin KeyErrorCodes(probe.p))
                   /\ probe.response.error_code \in TransientCodes
                         => probe.status.valid

C19_Witness ==
    /\ Probed
    /\ probe.p = "qwen"
    /\ probe.response.error_code = "invalid_api_key"
    /\ probe.status.valid

\* exactly one "." with a non-empty part on either side
WellFormed(key) ==
    /\ Cardinality({i \in 1..Len(key) : key[i] = "."}) = 1
    /\ key[1] # "."
    /\ key[Len(key)] # "."

\* C20: for every non-empty credential that is not of the form id.secret
\* the GLM client's check_key_status reports invalid_format and attempts
\* no call.
C20_GlmFormatChecked ==
    (/\ probe.phase = "done"
     /\ probe.p = "glm4"
     /\ probe.key # EmptyKey
     /\ ~WellFormed(probe.key)) =>
        /\ ~probe.status.valid
        /\ probe.status.error = "invalid_format"
        /\ ~probe.called
        /\ ~probe.sent

\* the call of a client has returned
Called == probe.phase = "called"

\* C21: call returns a failed response with the code of the failure: a
\* missing key gives missing_api_key and, for GLM, a key that does not split
\* in two gives token_generation_failed, both without a request; a timeout
\* gives timeout, a refused connection network_error, a non-200 answer with
\* an unparseable body http_<status>, any other exception unknown_error.
C21_ErrorTaxonomy ==
    Called =>
        LET r == probe.response
            failed(code) == ~r.success /\ r.error_code = code
        IN  IF probe.key = EmptyKey
            THEN failed("missing_api_key") /\ ~probe.requested
            ELSE IF probe.p = "glm4" /\ SplitParts(probe.key) # 2
            THEN failed("token_generation_failed") /\ ~probe.requested
            ELSE /\ probe.requested
                 /\ probe.answer.kind = "ok" => r.success
                 /\ probe.answer.kind = "timeout" => failed("timeout")
                 /\ probe.answer.kind = "connect" => failed("network_error")
                 /\ probe.answer.kind = "fault" => failed("unknown_error")
                 /\ probe.answer = AnswerBadBody(401) => failed("http_401")
                 /\ probe.answer = AnswerBadBody(500) => failed("http_500")
                 /\ probe.answer.kind = "http" => failed(probe.answer.code)

C21_Witness ==
    /\ Called
    /\ probe.p = "qwen"
    /\ probe.answer = AnswerBadBody(401)
    /\ probe.response.error_code = "http_401"

(***************************************************************************)
(* KeyStatusMonitor (src/core/llm/key_monitor.py)                          *)
(***************************************************************************)
EXPIRY_WARNING_DAYS == 7
\* 10.0; balances are whole currency units here
LOW_BALANCE_THRESHOLD == 10

\* LLMManager.get_active_provider
get_active_provider(cfg) == Get(cfg, "active_provider", "deepseek")

\* LLMManager.get_provider_config; None is the empty document, which the
\* callers' `if not config` treats alike
get_provider_config(cfg, p) == Get(Get(cfg, "providers", EmptyDoc), p, EmptyDoc)

\* (expiry_date - datetime.now()).days: whole days, rounded down
days_between(later, earlier) == (later - earlier) \div TicksPerDay

\* KeyStatusMonitor.should_remind_expiry
should_remind_expiry(cfg, p, t) ==
    LET provider_config == get_provider_config(cfg, p) IN
    IF provider_config = EmptyDoc
    THEN FALSE
    ELSE LET key_status == Get(provider_config, "key_status", EmptyDoc)
             expires_at == Get(key_status, "expires_at", << >>)
             expiring ==
                /\ expires_at # << >>
                /\ is_isoformat(expires_at)
                /\ days_between(fromisoformat(expires_at), t)
                      <= EXPIRY_WARNING_DAYS
             low == /\ "balance" \in DOMAIN key_status
                    /\ key_status.balance < LOW_BALANCE_THRESHOLD
         IN  expiring \/ low

\* expires_at texts: absent, empty, not a date, and every instant
ExpiryTexts == {<< >>, <<"soon">>} \cup {isoformat(t) : t \in Instants}
Balances == {5, 10, 15}

\* key_status documents with and without expires_at and balance
WithExpiry(ks, text) ==
    IF text = << >> THEN ks ELSE Put(ks, "expires_at", text)
RemindStatuses ==
    {WithExpiry(ks, text) :
        ks \in {StatusChecked} \cup {Put(StatusChecked, "balance", b) : b \in Balances},
        text \in ExpiryTexts}
    \cup {Put(StatusChecked, "expires_at", << >>)}

\* the config whose deepseek provider carries the key_status
RemindConfig(ks) ==
    [ConfiguredDoc("deepseek", TRUE, DefaultConfig.fallback_order,
                   {"deepseek"}, DefaultUsage)
        EXCEPT !.providers["deepseek"].key_status = ks]

RemindInit ==
    /\ file = AbsentFile
    /\ bundled = AbsentFile
    /\ ManagerNew
    /\ budget = 0
    /\ CacheOff
    /\ SharedOff
    /\ probe = [phase |-> "off"]
    /\ remind \in [phase : {"new"}, p : {"deepseek", "glm4", "nonexistent"},
                   key_status : RemindStatuses, now : {1, 2}]

\* monitor.should_remind_expiry(provider)
RemindCheck ==
    /\ remind.phase = "new"
    /\ LET cfg == RemindConfig(remind.key_status)
       IN  remind' = [phase |-> "done", p |-> remind.p,
                      key_status |-> remind.key_status, now |-> remind.now,
                      known |-> remind.p \in DOMAIN cfg.providers,
                      result |-> should_remind_expiry(cfg, remind.p, remind.now)]
    /\ UNCHANGED <<mvars, cvars, svars, probe>>

RemindNext == RemindCheck

SpecRemind == RemindInit /\ [][RemindNext]_vars

\* C22: should_remind_expiry is true exactly when the key_status of the
\* provider has a well-formed expires_at no more than 7 days after now or a
\* balance below 10; a malformed or missing expires_at adds no reminder and
\* an unknown provider gives false.
C22_RemindExactly ==
    remind.phase = "done" =>
        LET ks == remind.key_status
            text == Get(ks, "expires_at", << >>)
            within == /\ is_isoformat(text)
                      /\ fromisoformat(text) - remind.now
                            <= EXPIRY_WARNING_DAYS * TicksPerDay
            low == "balance" \in DOMAIN ks /\ ks.balance < LOW_BALANCE_THRESHOLD
        IN  remind.result = (remind.p = "deepseek" /\ (within \/ low))

(***************************************************************************)
(* KeyStatusMonitor over an LLMManager: the startup check and the views    *)
(***************************************************************************)
MaxMonitorOps == 1   \* monitor operations performed

\* the order in which the providers dict is iterated (_default_config's)
ProviderOrder == <<"deepseek", "glm4", "qwen", "openai">>

RetList(items) == [kind |-> "list", items |-> items]
RetText(text) == [kind |-> "text", text |-> text]

\* what a view or a check hands back: the manager afterwards, the value
\* returned, and the key probes it made
Viewed(st, r, probes) == [st |-> st, ret |-> r, probes |-> probes]

\* LLMManager.get_available_providers
get_available_providers(cfg) ==
    LET providers == Get(cfg, "providers", EmptyDoc)
        ids == SelectSeq(ProviderOrder, LAMBDA p : p \in DOMAIN providers)
    IN  [i \in 1..Len(ids) |->
            LET c == providers[ids[i]] IN
            [id |-> ids[i],
             name |-> Get(c, "name", ids[i]),
             enabled |-> Get(c, "enabled", FALSE),
             has_key |-> Get(c, "api_key", EmptyKey) # EmptyKey,
             key_valid |-> Get(Get(c, "key_status", EmptyDoc), "valid", FALSE),
             is_active |-> ids[i] = get_active_provider(cfg)]]

\* f"{provider_name} API Key 无效：{error}"
Warning(name, error) == [name |-> name, error |-> error]

\* the loop of check_on_startup from the i-th provider of the list on
RECURSIVE startup_from(_, _, _, _, _)
startup_from(st, providers, i, answers, t) ==
    IF i > Len(providers)
    THEN Viewed(st, << >>, << >>)
    ELSE LET provider == providers[i] IN
         IF provider.enabled /\ provider.has_key
         THEN LET out == check_key(st, provider.id, answers[provider.id], t)
                  status == out.ret.status
                  rest == startup_from(out.st, providers, i + 1, answers, t)
                  warned == IF ~Get(status, "valid", FALSE)
                            THEN <<Warning(provider.name,
                                           Get(status, "error", "unknown"))>>
                            ELSE << >>
              IN  Viewed(rest.st, warned \o rest.ret,
                         <<[provider |-> provider.id, status |-> status]>>
                            \o rest.probes)
         ELSE startup_from(st, providers, i + 1, answers, t)

\* check_on_startup that skips the providers whose stored status is valid
check_on_startup_trusting(st, answers, t) ==
    LET listed == get_available_providers(st.config)
        out == startup_from(st,
                   SelectSeq(listed, LAMBDA pr : ~pr.key_valid), 1, answers, t)
    IN  Viewed(out.st, RetList(out.ret), out.probes)

\* KeyStatusMonitor.check_on_startup
check_on_startup(st, answers, t) ==
    LET out == startup_from(st, get_available_providers(st.config), 1,
                            answers, t)
    IN  Viewed(out.st, RetList(out.ret), out.probes)

\* LLMManager.get_available_providers as a call on the manager
view_available_providers(st) ==
    Viewed(st, RetList(get_available_providers(st.config)), << >>)

\* KeyStatusMonitor.get_status_summary
get_status_summary(st) ==
    LET active == get_active_provider(st.config)
        provider_config == get_provider_config(st.config, active)
        key_status == Get(provider_config, "key_status", EmptyDoc)
        name == Get(provider_config, "name", active)
    IN  Viewed(st,
               RetText(IF provider_config = EmptyDoc
                       THEN [mark |-> "unconfigured"]
                       ELSE IF Get(key_status, "valid", FALSE)
                       THEN IF "balance" \in DOMAIN key_status
                            THEN [mark |-> "ok", name |-> name,
                                  balance |-> key_status.balance]
                            ELSE [mark |-> "ok", name |-> name]
                       ELSE [mark |-> "down", name |-> name,
                             error |-> Get(key_status, "error", "unknown")]),
               << >>)

\* the status_info get_all_status builds for one listed provider
status_info(cfg, provider, t) ==
    LET key_status == Get(get_provider_config(cfg, provider.id),
                          "key_status", EmptyDoc)
    IN  [id |-> provider.id, name |-> provider.name,
         enabled |-> provider.enabled, has_key |-> provider.has_key,
         is_active |-> provider.is_active,
         valid |-> Get(key_status, "valid", FALSE),
         error |-> Get(key_status, "error", None),
         checked_at |-> Get(key_status, "checked_at", NoTime),
         needs_attention |->
            /\ provider.enabled
            /\ provider.has_key
            /\ \/ ~Get(key_status, "valid", FALSE)
               \/ should_remind_expiry(cfg, provider.id, t * TicksPerDay)]

\* get_all_status that probes every listed provider before reporting
get_all_status_live(st, t) ==
    LET out == startup_from(st, get_available_providers(st.config), 1,
                            [p \in CLIENT_CLASSES |-> AnswerOk], t)
        listed == SelectSeq(get_available_providers(out.st.config),
                     LAMBDA pr : get_provider_config(out.st.config, pr.id) # EmptyDoc)
    IN  Viewed(out.st,
               RetList([i \in 1..Len(listed) |->
                           status_info(out.st.config, listed[i], t)]),
               out.probes)

\* KeyStatusMonitor.get_all_status
get_all_status(st, t) ==
    LET listed == SelectSeq(get_available_providers(st.config),
                     LAMBDA pr : get_provider_config(st.config, pr.id) # EmptyDoc)
    IN  Viewed(st,
               RetList([i \in 1..Len(listed) |->
                           status_info(st.config, listed[i], t)]),
               << >>)

\* the three recommendations
ConfigureKey == [kind |-> "configure_key"]
ConfigureBackup == [kind |-> "configure_backup"]
SwitchTo(names) == [kind |-> "switch", names |-> names]

\* get_recommendations that counts every provider with a key as usable
get_recommendations_keyed(st) ==
    LET providers == get_available_providers(st.config)
        valid_providers ==
            SelectSeq(providers, LAMBDA pr : pr.enabled /\ pr.has_key)
        first == IF Len(valid_providers) = 0 THEN <<ConfigureKey>>
                 ELSE IF Len(valid_providers) = 1 THEN <<ConfigureBackup>>
                 ELSE << >>
        active_config == get_provider_config(st.config,
                                             get_active_provider(st.config))
        second ==
            IF /\ active_config # EmptyDoc
               /\ ~Get(Get(active_config, "key_status", EmptyDoc), "valid", FALSE)
               /\ Len(valid_providers) > 0
            THEN <<SwitchTo([i \in 1..Len(valid_providers) |->
                                valid_providers[i].name])>>
            ELSE << >>
    IN  Viewed(st, RetList(first \o second), << >>)

\* KeyStatusMonitor.get_recommendations
get_recommendations(st) ==
    LET providers == get_available_providers(st.config)
        valid_providers ==
            SelectSeq(providers,
                      LAMBDA pr : pr.enabled /\ pr.has_key /\ pr.key_valid)
        first == IF Len(valid_providers) = 0 THEN <<ConfigureKey>>
                 ELSE IF Len(valid_providers) = 1 THEN <<ConfigureBackup>>
                 ELSE << >>
        active_config == get_provider_config(st.config,
                                             get_active_provider(st.config))
        second ==
            IF /\ active_config # EmptyDoc
               /\ ~Get(Get(active_config, "key_status", EmptyDoc), "valid", FALSE)
               /\ Len(valid_providers) > 0
            THEN <<SwitchTo([i \in 1..Len(valid_providers) |->
                                valid_providers[i].name])>>
            ELSE << >>
    IN  Viewed(st, RetList(first \o second), << >>)

\* provider configs as an earlier run can have left them
Rejected == [valid |-> FALSE, checked_at |-> 1, error |-> "invalid_api_key"]
Profiles == {"ready", "rejected", "unkeyed", "parked", "dormant"}
Profiled(p, profile) ==
    CASE profile = "ready" ->
            [DefaultProvider(p) EXCEPT !.enabled = TRUE, !.api_key = DottedKey,
                                       !.key_status = StatusChecked]
      [] profile = "rejected" ->
            [DefaultProvider(p) EXCEPT !.enabled = TRUE, !.api_key = DottedKey,
                                       !.key_status = Rejected]
      [] profile = "unkeyed" ->
            [DefaultProvider(p) EXCEPT !.enabled = TRUE]
      [] profile = "parked" ->
            [DefaultProvider(p) EXCEPT !.api_key = DottedKey,
                                       !.key_status = StatusChecked]
      [] OTHER -> DefaultProvider(p)

MonitorDocs ==
    {[DefaultConfig EXCEPT
        !.active_provider = a,
        !.providers = [p \in CLIENT_CLASSES |->
                          IF p = "openai" THEN DefaultProvider(p)
                          ELSE Profiled(p, profile[p])]] :
        a \in {"deepseek", "glm4"},
        profile \in [{"deepseek", "glm4", "qwen"} -> Profiles]}

MonitorInit ==
    /\ file \in {FileOf(d) : d \in MonitorDocs} \cup {AbsentFile}
    /\ bundled = AbsentFile
    /\ ManagerNew
    /\ budget = MaxMonitorOps
    /\ CacheOff
    /\ ProbeOff
    /\ SharedOff

\* a monitor operation that runs to completion in one step
MonitorDone(op, out) ==
    /\ nops' = nops + 1
    /\ lastOp' = op
    /\ arg' = [p |-> "none", clients |-> clients, file |-> file]
    /\ cfg0' = config
    /\ t0' = now
    /\ config' = out.st.config
    /\ file' = out.st.file
    /\ clients' = out.st.clients
    /\ ret' = out.ret
    /\ trace' = out.probes
    /\ UNCHANGED <<pc, bundled, now, primary, idx, firstRun, budget, wins>>
    /\ UNCHANGED NotManager

\* the providers check_on_startup will probe
Checkable(cfg) ==
    {p \in DOMAIN Get(cfg, "providers", EmptyDoc) :
        cfg.providers[p].enabled /\ cfg.providers[p].api_key # EmptyKey}

CheckOnStartup ==
    /\ CanStart
    /\ \E answers \in [Checkable(config) -> FewAnswers] :
          MonitorDone("check_on_startup", check_on_startup(Manager, answers, now))

GetAvailableProviders ==
    /\ CanStart
    /\ MonitorDone("get_available_providers", view_available_providers(Manager))

GetStatusSummary ==
    /\ CanStart
    /\ MonitorDone("get_status_summary", get_status_summary(Manager))

GetAllStatus ==
    /\ CanStart
    /\ MonitorDone("get_all_status", get_all_status(Manager, now))

GetRecommendations ==
    /\ CanStart
    /\ MonitorDone("get_recommendations", get_recommendations(Manager))

MonitorNext ==
    \/ Construct
    \/ CheckOnStartup
    \/ GetAvailableProviders
    \/ GetStatusSummary
    \/ GetAllStatus
    \/ GetRecommendations

SpecMonitor == MonitorInit /\ [][MonitorNext]_vars

\* the providers that were enabled and had a key when the operation started
KeyedAtStart ==
    {p \in ConfiguredAtStart :
        cfg0.providers[p].enabled /\ cfg0.providers[p].api_key # EmptyKey}

\* the probes of the last operation whose result was invalid
InvalidProbes == {i \in 1..Len(trace) : ~trace[i].status.valid}

\* C23: check_on_startup probes each provider that is enabled and has a key
\* exactly once and no other provider, stores each result as that
\* provider's persisted key_status, and returns exactly one warning for
\* each probe with an invalid result.
C23_StartupChecksKeyed ==
    lastOp = "check_on_startup" =>
        /\ {trace[i].provider : i \in 1..Len(trace)} = KeyedAtStart
        /\ Len(trace) = Cardinality(KeyedAtStart)
        /\ \A i \in 1..Len(trace) :
              /\ config.providers[trace[i].provider].key_status = trace[i].status
              /\ file = FileOf(config)
        /\ Len(ret.items) = Cardinality(InvalidProbes)
        /\ \A i \in InvalidProbes :
              \E j \in 1..Len(ret.items) :
                  ret.items[j] = Warning(cfg0.providers[trace[i].provider].name,
                                         trace[i].status.error)
        /\ \A j \in 1..Len(ret.items) :
              \E i \in InvalidProbes :
                  ret.items[j].name = cfg0.providers[trace[i].provider].name

C23_Witness ==
    /\ lastOp = "check_on_startup"
    /\ Cardinality(KeyedAtStart) = 3
    /\ Cardinality(InvalidProbes) = 1
    /\ \E p \in KeyedAtStart :
          /\ ~cfg0.providers[p].key_status.valid
          /\ config.providers[p].key_status.valid

\* the providers that are enabled, have a key and a valid key_status
ValidAtStart == {p \in KeyedAtStart : cfg0.providers[p].key_status.valid}

\* the active provider's key_status.valid is false
ActiveInvalidAtStart ==
    /\ ActiveAtStart \in ConfiguredAtStart
    /\ ~cfg0.providers[ActiveAtStart].key_status.valid

Recommended == {ret.items[j] : j \in 1..Len(ret.items)}

\* C24: get_recommendations contains the configure-a-key recommendation iff
\* no provider is enabled, keyed and valid, the configure-a-backup
\* recommendation iff exactly one is, the switch recommendation iff the
\* active provider's key is invalid and some provider is valid, and nothing
\* else.
C24_Recommendations ==
    lastOp = "get_recommendations" =>
        /\ ConfigureKey \in Recommended <=> ValidAtStart = {}
        /\ ConfigureBackup \in Recommended <=> Cardinality(ValidAtStart) = 1
        /\ (\E r \in Recommended : r.kind = "switch")
              <=> (ActiveInvalidAtStart /\ ValidAtStart # {})
        /\ \A r \in Recommended :
              r.kind \in {"configure_key", "configure_backup", "switch"}
        /\ Len(ret.items) = Cardinality({r.kind : r \in Recommended})

C24_Witness ==
    /\ lastOp = "get_recommendations"
    /\ Len(ret.items) = 2
    /\ KeyedAtStart # ValidAtStart

ViewOps ==
    {"get_available_providers", "get_status_summary", "get_all_status",
     "get_recommendations"}

\* C25: the views invoke no provider client and leave the config, the file,
\* every key_status, the usage stats and the client pool as they were.
C25_ViewsReadOnly ==
    lastOp \in ViewOps =>
        /\ trace = << >>
        /\ config = cfg0
        /\ file = arg.file
        /\ clients = arg.clients

C25_Witness ==
    /\ lastOp = "get_all_status"
    /\ Len(ret.items) = 4
    /\ \E j \in 1..Len(ret.items) :
          ret.items[j].needs_attention /\ ~ret.items[j].valid
    /\ clients # EmptyDoc

(***************************************************************************)
(* Two LLMManager instances over one config file.  Every operation of an   *)
(* instance, with the writes it makes, is one step.                        *)
(***************************************************************************)
MaxSharedOps == 2   \* operations the two instances perform after construction

\* the fallback loop of call from the i-th entry of the order on
RECURSIVE fallback_from(_, _, _, _, _, _)
fallback_from(st, prim, order, i, answers, t) ==
    IF i > Len(order)
    THEN Outcome(st, RetResponse(NoneResponse))
    ELSE IF fallback_eligible(st, prim, order[i])
    THEN LET r == call_fallback(st, order[i], answers[order[i]], t) IN
         IF r.done
         THEN Outcome(r.st, RetResponse(r.resp))
         ELSE fallback_from(r.st, prim, order, i + 1, answers, t)
    ELSE fallback_from(st, prim, order, i + 1, answers, t)

\* LLMManager.call from entry to return; answers gives the backend's answer
\* per provider
call(st, answers, t) ==
    LET prim == get_active_provider(st.config)
        order == fallback_sequence(st.config)
    IN  IF prim \in DOMAIN st.clients
        THEN LET r == call_primary(st, prim, answers[prim], t) IN
             IF r.done
             THEN Outcome(r.st, RetResponse(r.resp))
             ELSE fallback_from(r.st, prim, order, 1, answers, t)
        ELSE fallback_from(st, prim, order, 1, answers, t)

Instances == {1, 2}
Unbuilt == [built |-> FALSE, config |-> EmptyDoc, clients |-> EmptyDoc]

SharedDocs ==
    {ConfiguredDoc("deepseek", TRUE, DefaultConfig.fallback_order, k,
                   DefaultUsage) : k \in {{"deepseek"}, {"glm4", "openai"}}}

SharedInit ==
    /\ file = AbsentFile
    /\ bundled = AbsentFile
    /\ ManagerNew
    /\ budget = 0
    /\ CacheOff
    /\ ProbeOff
    /\ inst = [i \in Instances |-> Unbuilt]
    /\ disk \in {FileOf(d) : d \in SharedDocs}
    /\ writer = << >>
    /\ sharedOps = 0

\* instance i as the manager the operators work on
Instance(i) ==
    [config |-> inst[i].config, file |-> disk, clients |-> inst[i].clients]

\* LLMManager(): the instance reads the file as it is now
SharedConstruct(i) ==
    /\ ~inst[i].built
    /\ LET r == load_config(disk, AbsentFile) IN
       /\ ~r.raised
       /\ inst' = [inst EXCEPT ![i] = [built |-> TRUE, config |-> r.config,
                                       clients |-> init_clients(r.config)]]
       /\ disk' = r.file
    /\ UNCHANGED <<writer, sharedOps, mvars, cvars, pvars>>

\* an operation of instance i has run; it is the last writer if it wrote
SharedDone(i, out) ==
    /\ inst' = [inst EXCEPT ![i] = [built |-> TRUE, config |-> out.st.config,
                                    clients |-> out.st.clients]]
    /\ disk' = out.st.file
    /\ writer' = IF out.st.file # disk THEN Append(writer, i) ELSE writer
    /\ sharedOps' = sharedOps + 1
    /\ UNCHANGED <<mvars, cvars, pvars>>

SharedReady(i) == inst[i].built /\ sharedOps < MaxSharedOps

SharedProviders == {"deepseek", "glm4"}

SharedSetApiKey(i) ==
    /\ SharedReady(i)
    /\ \E p \in SharedProviders, key \in {EmptyKey, PlainKey} :
          SharedDone(i, set_api_key(Instance(i), p, key))

SharedSetActiveProvider(i) ==
    /\ SharedReady(i)
    /\ \E p \in SharedProviders :
          SharedDone(i, set_active_provider(Instance(i), p))

SharedCheckKey(i) ==
    /\ SharedReady(i)
    /\ \E p \in SharedProviders, answer \in FewAnswers :
          SharedDone(i, check_key(Instance(i), p, answer, 1))

SharedCall(i) ==
    /\ SharedReady(i)
    /\ \E answers \in [CLIENT_CLASSES -> {AnswerOk, AnswerHttp("invalid_api_key")}] :
          SharedDone(i, call(Instance(i), answers, 1))

SharedNext ==
    \E i \in Instances :
        \/ SharedConstruct(i)
        \/ SharedSetApiKey(i)
        \/ SharedSetActiveProvider(i)
        \/ SharedCheckKey(i)
        \/ SharedCall(i)

SpecShared == SharedInit /\ [][SharedNext]_vars

\* the instance that persisted last
LastWriter == writer[Len(writer)]

\* C26: whatever the interleaving of the two instances' operations, the
\* file holds exactly the in-memory config of the instance that persisted
\* last; what the other instance changed is not merged into it.
C26_LastWriterWins ==
    writer # << >> => disk = FileOf(inst[LastWriter].config)

C26_Witness ==
    /\ Len(writer) >= 2
    /\ writer[1] # LastWriter
    /\ \E p \in SharedProviders :
          /\ inst[writer[1]].config.providers[p].api_key = PlainKey
          /\ disk.doc.providers[p].api_key # PlainKey
    /\ inst[LastWriter].config.active_provider = "glm4"

(***************************************************************************)
(* The manager under calls only, from unused usage statistics              *)
(***************************************************************************)
MaxUsageOps == 2   \* calls made

UsageDocs ==
    {ConfiguredDoc("deepseek", TRUE, DefaultConfig.fallback_order, k,
                   DefaultUsage) : k \in KeyedSets}

UsageInit ==
    /\ file \in {FileOf(d) : d \in UsageDocs}
    /\ bundled = AbsentFile
    /\ ManagerNew
    /\ budget = MaxUsageOps
    /\ CacheOff
    /\ ProbeOff
    /\ SharedOff

UsageNext ==
    \/ Construct
    \/ CallPrimary
    \/ CallFallback
    \/ Tick

SpecUsage == UsageInit /\ [][UsageNext]_vars

\* the sum of f[x].calls and of f[x].tokens over the keys of f
RECURSIVE SumCalls(_)
SumCalls(f) ==
    IF DOMAIN f = {} THEN 0
    ELSE LET x == CHOOSE x \in DOMAIN f : TRUE
         IN  f[x].calls + SumCalls([y \in DOMAIN f \ {x} |-> f[y]])
RECURSIVE SumTokens(_)
SumTokens(f) ==
    IF DOMAIN f = {} THEN 0
    ELSE LET x == CHOOSE x \in DOMAIN f : TRUE
         IN  f[x].tokens + SumTokens([y \in DOMAIN f \ {x} |-> f[y]])

UsageOf(cfg) == Get(cfg, "usage_stats", DefaultUsage)

\* C27: starting from unused statistics, total_calls is the number of calls
\* that returned success and the sum of the days' calls, each day's calls
\* is the sum of its providers' calls, and likewise for tokens; a failed
\* call changes no counter, no day bucket disappears and no counter
\* decreases.
C27_UsageConsistent ==
    pc \in {"idle", "fallback"} =>
        LET u == UsageOf(config)
            before == UsageOf(cfg0)
        IN  /\ u.total_calls = wins
            /\ u.total_calls = SumCalls(u.daily_stats)
            /\ u.total_tokens = SumTokens(u.daily_stats)
            /\ \A d \in DOMAIN u.daily_stats :
                  /\ u.daily_stats[d].calls = SumCalls(u.daily_stats[d].by_provider)
                  /\ u.daily_stats[d].tokens = SumTokens(u.daily_stats[d].by_provider)
            /\ (CallReturned /\ ~ret.response.success) => u = before
            /\ lastOp = "call" =>
                  /\ DOMAIN before.daily_stats \subseteq DOMAIN u.daily_stats
                  /\ u.total_calls >= before.total_calls
                  /\ u.total_tokens >= before.total_tokens
                  /\ \A d \in DOMAIN before.daily_stats :
                        /\ u.daily_stats[d].calls >= before.daily_stats[d].calls
                        /\ u.daily_stats[d].tokens >= before.daily_stats[d].tokens

C27_Witness ==
    /\ CallReturned
    /\ wins = 2
    /\ Cardinality(DOMAIN UsageOf(config).daily_stats) = 2
    /\ Len(trace) >= 2

\* the active provider was invoked by the last call
ActiveInvoked ==
    /\ lastOp = "call"
    /\ ActiveAtStart \in DOMAIN arg.clients
    /\ Len(trace) >= 1

\* the last call has marked the active provider's key invalid
MarkedInvalid ==
    config.providers[ActiveAtStart].key_status =
        [valid |-> FALSE, checked_at |-> t0,
         error |-> trace[1].response.error_code]

\* the variant's check_key_status reports a key invalid on this error code:
\* a missing key always, any failure for GLM, its own list otherwise
ClassifiedBad(p, code) ==
    \/ code = "missing_api_key"
    \/ p = "glm4"
    \/ code \in KeyErrorCodes(p)

\* C28: for every variant and every error code its call returns, call marks
\* the active provider's key invalid exactly when the variant's own
\* check_key_status classifies that code as a bad credential.
C28_ClassificationsAgree ==
    (ActiveInvoked /\ Failed(1)) =>
        (MarkedInvalid
            <=> ClassifiedBad(ActiveAtStart, trace[1].response.error_code))

\* key_status of provider p in a config
StatusOf(cfg, p) == cfg.providers[p].key_status

\* C29: call changes only usage_stats, on success, and the active
\* provider's key_status, on a credential failure; enabled flags, keys, the
\* active provider, the fallback order and the client pool stay as they
\* were and no key_status becomes valid.  A provider marked invalid is still
\* invoked first, and a success through it leaves its key_status invalid.
C29_CallFrame ==
    lastOp = "call" =>
        /\ DOMAIN config = DOMAIN cfg0
        /\ \A k \in DOMAIN config \ {"usage_stats", "providers"} :
              config[k] = cfg0[k]
        /\ DOMAIN config.providers = DOMAIN cfg0.providers
        /\ \A p \in DOMAIN config.providers :
              /\ config.providers[p]
                    = [cfg0.providers[p] EXCEPT !.key_status = StatusOf(config, p)]
              /\ p # ActiveAtStart => StatusOf(config, p) = StatusOf(cfg0, p)
              /\ StatusOf(config, p).valid => StatusOf(cfg0, p).valid
        /\ clients = arg.clients
        /\ StatusOf(config, ActiveAtStart) # StatusOf(cfg0, ActiveAtStart) =>
              /\ ActiveInvoked
              /\ trace[1].response.error_code \in BadCredentialCodes
        /\ UsageOf(config) # UsageOf(cfg0) =>
              CallReturned /\ ret.response.success
        /\ ActiveInvoked => trace[1].provider = ActiveAtStart

C29_Witness ==
    /\ CallReturned
    /\ ActiveInvoked
    /\ StatusOf(cfg0, ActiveAtStart)
          = [valid |-> FALSE, checked_at |-> 1, error |-> "invalid_api_key"]
    /\ trace[1].provider = ActiveAtStart
    /\ Succeeded(1)
    /\ ~StatusOf(config, ActiveAtStart).valid

(***************************************************************************)
(* The tips generator over the cache and the manager                       *)
(***************************************************************************)
MaxTipsOps == 2   \* get_daily_tips calls and clock advances performed

\* the values get_daily_tips works with: the dict parsed from a reply, the
\* empty dict, and the static dicts of the three trimesters
AiTips == "ai tips"
EmptyObject == "{}"
EarlyTips == "static tips, weeks 1-13"
MiddleTips == "static tips, weeks 14-27"
LateTips == "static tips, weeks 28-40"

\* the text of message.content in a backend's reply
ObjectText == "{\"precautions\": \"rest\"}"
EmptyObjectText == "{}"
ProseText == "Here are today's tips"
ReplyTexts == {ObjectText, EmptyObjectText, ProseText}

\* json.loads: the value, or raised for a text that is not JSON
json_loads(text) ==
    CASE text = ObjectText -> [raised |-> FALSE, value |-> AiTips]
      [] text = EmptyObjectText -> [raised |-> FALSE, value |-> EmptyObject]
      [] OTHER -> [raised |-> TRUE, value |-> None]

\* a value taken as a condition: None, "" and {} are false
truthy(v) == v \notin Falsy \cup {EmptyObject}

\* the response with the content the backend sent
Reply(resp, text) == IF resp.success THEN [resp EXCEPT !.content = text] ELSE resp

\* get_current_season(): every date of IsoDates is in January
get_current_season(t) == "winter"

\* PregnancyTipsGenerator._get_static_tips
get_static_tips(week) ==
    IF week <= 13 THEN EarlyTips
    ELSE IF week <= 27 THEN MiddleTips
    ELSE LateTips

\* what _generate_ai_tips leaves: the manager, the tips and whether
\* manager.call was made
Generated(st, tips, called) == [st |-> st, tips |-> tips, called |-> called]

\* _generate_ai_tips once manager.call has returned response and left the
\* manager as st
tips_of_response(st, response, week) ==
    IF response.success /\ ~json_loads(response.content).raised
    THEN Generated(st, json_loads(response.content).value, TRUE)
    ELSE Generated(st, get_static_tips(week), TRUE)

\* _generate_ai_tips from the outcome of manager.call
tips_of_call(out, text, week) ==
    tips_of_response(out.st, Reply(out.ret.response, text), week)

\* PregnancyTipsGenerator._generate_ai_tips; has: self._llm_manager is set
generate_ai_tips(st, has, week, answers, text, t) ==
    IF ~has
    THEN Generated(st, get_static_tips(week), FALSE)
    ELSE tips_of_call(call(st, answers, t \div TicksPerDay), text, week)

\* what get_daily_tips leaves: the cache, its file, the manager, the tips
\* returned and whether manager.call was made
TipsOutcome(c, f, st, tips, called) ==
    [cache |-> c, file |-> f, st |-> st, tips |-> tips, called |-> called]

\* the context get_daily_tips builds
tips_context(week, t) ==
    [week |-> week, date |-> today(t), season |-> get_current_season(t)]

\* get_daily_tips after the tips were generated: self._cache.set and return
tips_stored(put, g) == TipsOutcome(put.cache, put.file, g.st, g.tips, g.called)

\* get_daily_tips on a miss: g is what was generated
tips_generated(looked, g, week, t) ==
    tips_stored(set(looked.cache, looked.file, DailyTips,
                    tips_context(week, t), g.tips, t), g)

\* get_daily_tips after the cache was consulted
tips_looked_up(looked, st, has, week, use_ai, answers, text, t) ==
    IF truthy(looked.ret.content)
    THEN TipsOutcome(looked.cache, looked.file, st, looked.ret.content, FALSE)
    ELSE tips_generated(looked,
                        IF use_ai /\ has
                        THEN generate_ai_tips(st, has, week, answers, text, t)
                        ELSE Generated(st, get_static_tips(week), FALSE),
                        week, t)

\* PregnancyTipsGenerator.get_daily_tips
get_daily_tips(c, f, st, has, week, use_ai, answers, text, t) ==
    tips_looked_up(get(c, f, DailyTips, tips_context(week, t), t),
                   st, has, week, use_ai, answers, text, t)

\* argument values
Weeks == {13, 14}
TipsAnswers == {AnswerOk, AnswerTimeout}
TipsDocs ==
    {ConfiguredDoc("deepseek", TRUE, DefaultConfig.fallback_order, k,
                   DefaultUsage) : k \in {{}, {"deepseek"}}}
DateSet == {IsoDates[i] : i \in 1..Len(IsoDates)}

TipsInit ==
    /\ file \in {FileOf(d) : d \in TipsDocs}
    /\ bundled = AbsentFile
    /\ ManagerNew
    /\ budget = 0
    /\ ProbeOff
    /\ SharedOff
    /\ cache = EmptyDoc
    /\ cacheFile = AbsentFile
    /\ clock = 2
    /\ cacheOps = 0
    /\ cacheLast = [op |-> "none"]

\* PregnancyTipsGenerator(AIContentCache())
TipsConstruct ==
    /\ cacheLast.op = "none"
    /\ cache' = load_json(cacheFile).doc
    /\ cacheLast' = [op |-> "__init__", returned |-> {},
                     requests |-> [d \in DateSet |-> 0]]
    /\ UNCHANGED <<cacheFile, clock, cacheOps, mvars, pvars, svars>>

\* set_llm_manager(LLMManager())
SetLlmManager == cacheLast.op # "none" /\ Construct

\* self._llm_manager is set
HasManager == pc = "idle"

TipsReady == cacheLast.op # "none" /\ cacheOps < MaxTipsOps

\* get_daily_tips has run on date d
TipsDone(week, use_ai, d, out) ==
    /\ cache' = out.cache
    /\ cacheFile' = out.file
    /\ config' = out.st.config
    /\ file' = out.st.file
    /\ clients' = out.st.clients
    /\ cacheLast' =
          [op |-> "get_daily_tips", week |-> week, use_ai |-> use_ai,
           ret |-> out.tips, called |-> out.called, cache0 |-> cache,
           clock0 |-> clock, returned0 |-> cacheLast.returned,
           returned |-> cacheLast.returned \cup {d},
           requests |->
              [cacheLast.requests EXCEPT
                  ![d] = @ + (IF out.called THEN 1 ELSE 0)]]

GetDailyTips ==
    /\ TipsReady
    /\ \E week \in Weeks, use_ai \in BOOLEAN, text \in ReplyTexts,
          answers \in [CLIENT_CLASSES -> TipsAnswers] :
          TipsDone(week, use_ai, today(clock),
                   get_daily_tips(cache, cacheFile, Manager, HasManager,
                                  week, use_ai, answers, text, clock))
    /\ cacheOps' = cacheOps + 1
    /\ UNCHANGED <<pc, bundled, now, nops, primary, idx, lastOp, ret, trace,
                   cfg0, t0, firstRun, arg, budget, wins>>
    /\ UNCHANGED <<clock, pvars, svars>>

\* time passes between two calls
TipsTick ==
    /\ TipsReady
    /\ \E d \in {1, 2} :
          /\ clock + d <= MaxClock
          /\ clock' = clock + d
    /\ cacheOps' = cacheOps + 1
    /\ UNCHANGED <<cache, cacheFile, cacheLast, mvars, pvars, svars>>

TipsNext ==
    \/ TipsConstruct
    \/ SetLlmManager
    \/ GetDailyTips
    \/ TipsTick

SpecTips == TipsInit /\ [][TipsNext]_vars

\* the cache held an unexpired daily_tips entry for the date when the last
\* get_daily_tips started
FreshEntry ==
    LET k == get_cache_key(DailyTips, [date |-> today(cacheLast.clock0)],
                           cacheLast.clock0)
    IN  /\ k \in DOMAIN cacheLast.cache0
        /\ ~is_expired(cacheLast.cache0[k], DailyTips, cacheLast.clock0)

\* C30: once get_daily_tips has returned for a date, a further
\* get_daily_tips for that date while the cached entry is unexpired makes no
\* manager.call, whatever the first call produced, so at most one call is
\* made per date.
C30_OneRequestPerDate ==
    CacheDid("get_daily_tips") =>
        /\ (today(cacheLast.clock0) \in cacheLast.returned0 /\ FreshEntry)
              => ~cacheLast.called
        /\ \A d \in DateSet : cacheLast.requests[d] <= 1

====
